---- MODULE Spec2Model ----
(***************************************************************************)
(* Anomaly alert rule evaluation engine                                    *)
(* (pkg/query-service/rules/anomaly_rule.go and the shared alerting types).*)
(*                                                                         *)
(* One AnomalyRule instance: its active alert table, health, lastError,    *)
(* the last-seen timestamp used for absence alerting, and one evaluation   *)
(* thread running Eval.  Time is counted in units of five minutes          *)
(* (resolvedRetention = 15 min = 3 units, AbsentFor and holdDuration in    *)
(* the same unit); 0 is Go's zero time.Time.                               *)
(***************************************************************************)
EXTENDS Integers, Sequences, FiniteSets, TLC

------------------------------------------------------------------------------
(* Bounds of the model *)

\* the wall clock (time.Now()) runs from 1 to MaxTime
MaxTime == 6
\* largest hold duration a rule is configured with
MaxHold == 2
\* largest AbsentFor a rule condition carries
MaxAbsentFor == 1
\* how many times the scheduler retries one tick
MaxRetries == 1
\* largest resendDelay the dispatcher is called with
MaxResendDelay == 2
\* the evaluation interval the dispatcher is called with
MaxInterval == 1
\* the largest number of calls of prepareQueryRange in a behaviour
MaxPlans == 2
\* the latest evaluation time handed to prepareQueryRange, in minutes
MaxMinute == 6

------------------------------------------------------------------------------
(* Program constants *)

\* resolvedRetention = 15 * time.Minute, in units of five minutes
resolvedRetention == 3

\* AlertState (iota)
StateInactive == 0
StatePending == 1
StateFiring == 2
StateDisabled == 3

\* RuleHealth
HealthUnknown == "unknown"
HealthGood == "ok"
HealthBad == "err"

\* CompareOp
CompareOpNone == "0"
ValueIsAbove == "1"
ValueIsBelow == "2"
ValueIsEq == "3"
ValueIsNotEq == "4"

\* MatchType
AtleastOnce == "1"
AllTheTimes == "2"
OnAverage == "3"
InTotal == "4"

\* the nil error
NoError == "nil"
\* errors returned by buildAndRunQuery and Eval
ErrTemporality == "internal error while setting temporality"
ErrQuerying == "internal error while querying"
ErrPostprocessing == "internal error while postprocessing"
ErrDuplicate == "duplicate alert found, vector contains metrics with the same labelset after applying alert labels"

\* the zero time.Time
ZeroTime == 0

------------------------------------------------------------------------------
(* Query results.  A v3.Result of the selected query is absent (nil) or    *)
(* holds series; a series is its label set and its points.  Label sets are *)
(* compared by hash (labels.Hash), modelled as equality of the label set.  *)

SeriesLabels == {"a", "b"}

\* a *v3.Result: present = FALSE is the nil pointer; series maps the label
\* set of each returned series to its point values
NilResult == [present |-> FALSE, series |-> <<>>]
Result(f) == [present |-> TRUE, series |-> f]

RECURSIVE SumSeq(_)
SumSeq(s) == IF s = <<>> THEN 0 ELSE Head(s) + SumSeq(Tail(s))

RECURSIVE SumSq(_)
SumSq(s) == IF s = <<>> THEN 0 ELSE Head(s) * Head(s) + SumSq(Tail(s))

Sgn(x) == IF x > 0 THEN 1 ELSE IF x < 0 THEN -1 ELSE 0

\* float64 scores: NaN, +Inf, -Inf, or the real number a / (m * sqrt(d)),
\* m > 0, d > 0 (real arithmetic, without float64 rounding)
NaN == [kind |-> "nan", a |-> 0, m |-> 1, d |-> 1]
PosInf == [kind |-> "pinf", a |-> 0, m |-> 1, d |-> 1]
NegInf == [kind |-> "ninf", a |-> 0, m |-> 1, d |-> 1]
Fin(a, m, d) == [kind |-> "fin", a |-> a, m |-> m, d |-> d]

\* Point values are whole numbers; three numbers no series uses as a value
\* stand for the float64 values NaN, +Inf and -Inf.
ValueNaN == 999
ValuePosInf == 1000
ValueNegInf == -1000
\* math.IsNaN(v), math.IsInf(v, 0)
IsNaN(v) == v = ValueNaN
IsInf(v) == v = ValuePosInf \/ v = ValueNegInf

\* getScore: (value - expected) / stddev(weekSeries), where
\* expected = avg(prev) + avg(week) - avg(weekPrev)  (getExpectedValue) and
\* stddev(week) = sqrt(sum((x - avg)^2) / n)          (getStdDev).
\* With nP, nW, nQ the lengths and sP, sW, sQ the sums:
\*   value - expected = N / (nP*nW*nQ),  stddev = sqrt(nW*sumsq(W) - sW^2) / nW.
\* An empty baseline makes getAvg 0/0 = NaN; a zero stddev divides by zero.
\* The baselines hold finite values; a NaN value gives NaN, and an infinite
\* value its own infinity unless the expected value is NaN.
getScore(prevPoints, weekPoints, weekPrevPoints, value) ==
    LET nP == Len(prevPoints)
        nW == Len(weekPoints)
        nQ == Len(weekPrevPoints)
        sP == SumSeq(prevPoints)
        sW == SumSeq(weekPoints)
        sQ == SumSeq(weekPrevPoints)
        M == nP * nW * nQ
        N == value * M - sP * nW * nQ - sW * nP * nQ + sQ * nP * nW
        D == nW * SumSq(weekPoints) - sW * sW
    IN  IF nP = 0 \/ nW = 0 \/ nQ = 0 \/ IsNaN(value) THEN NaN
        ELSE IF IsInf(value)
             THEN (IF value = ValuePosInf THEN PosInf ELSE NegInf)
        ELSE IF D = 0
             THEN (IF N > 0 THEN PosInf ELSE IF N < 0 THEN NegInf ELSE NaN)
             ELSE Fin(N * nW, M, D)

\* sign of (a / (m * sqrt(d))) - target for a finite score
CmpFin(s, target) ==
    LET B == target * s.m
        Q == s.a * s.a - B * B * s.d
    IN  IF B >= 0
        THEN (IF s.a <= 0 THEN (IF s.a = 0 /\ B = 0 THEN 0 ELSE -1) ELSE Sgn(Q))
        ELSE (IF s.a >= 0 THEN 1 ELSE -Sgn(Q))

\* the float64 comparisons score > t, score < t, score == t, score != t
FloatGT(s, t) == s.kind = "pinf" \/ (s.kind = "fin" /\ CmpFin(s, t) = 1)
FloatLT(s, t) == s.kind = "ninf" \/ (s.kind = "fin" /\ CmpFin(s, t) = -1)
FloatEQ(s, t) == s.kind = "fin" /\ CmpFin(s, t) = 0
FloatNE(s, t) == ~FloatEQ(s, t)

\* sum of the scores of the points (all scores share m and d)
RECURSIVE SumScores(_, _, _, _)
SumScores(points, prevPoints, weekPoints, weekPrevPoints) ==
    IF points = <<>> THEN Fin(0, 1, 1)
    ELSE LET h == getScore(prevPoints, weekPoints, weekPrevPoints, Head(points))
             r == SumScores(Tail(points), prevPoints, weekPoints, weekPrevPoints)
         IN  IF Tail(points) = <<>> THEN h
             ELSE IF h.kind = "nan" \/ r.kind = "nan" THEN NaN
             ELSE IF h.kind = "fin" /\ r.kind = "fin" THEN Fin(h.a + r.a, h.m, h.d)
             ELSE IF h.kind = "fin" THEN r
             ELSE IF r.kind = "fin" THEN h
             ELSE IF h.kind = r.kind THEN h
             ELSE NaN

\* the loops that skip no point
UsableAll(points) == points

\* the points the OnAverage and InTotal loops do not skip
Usable(points) == SelectSeq(points, LAMBDA v : ~(IsNaN(v) \/ IsInf(v)))

\* sum / count of the OnAverage branch
AvgScore(sum, count) ==
    IF count = 0 THEN NaN
    ELSE IF sum.kind = "fin" THEN Fin(sum.a, sum.m * count, sum.d)
    ELSE sum

\* the comparison a compare operator stands for; no other operator matches
Satisfies(op, s, t) ==
    CASE op = ValueIsAbove -> FloatGT(s, t)
      [] op = ValueIsBelow -> FloatLT(s, t)
      [] op = ValueIsEq -> FloatEQ(s, t)
      [] op = ValueIsNotEq -> FloatNE(s, t)
      [] OTHER -> FALSE

\* the comparison that clears the AllTheTimes verdict
Violates(op, s, t) ==
    CASE op = ValueIsAbove -> FloatLT(s, t) \/ FloatEQ(s, t)
      [] op = ValueIsBelow -> FloatGT(s, t) \/ FloatEQ(s, t)
      [] op = ValueIsEq -> FloatNE(s, t)
      [] op = ValueIsNotEq -> FloatEQ(s, t)
      [] OTHER -> FALSE

\* shouldAlert on a series whose three counterparts were found (found = FALSE
\* is a nil counterpart)
shouldAlert(matchType, op, target, points, prev, week, weekPrev) ==
    IF ~prev.found \/ ~week.found \/ ~weekPrev.found THEN FALSE
    ELSE IF Len(points) = 0 THEN FALSE
    ELSE LET score(v) == getScore(prev.points, week.points, weekPrev.points, v)
             sum == SumScores(Usable(points), prev.points, week.points,
                              weekPrev.points)
         IN  CASE matchType = AtleastOnce ->
                    \E i \in 1..Len(points) : Satisfies(op, score(points[i]), target)
               [] matchType = AllTheTimes ->
                    ~\E i \in 1..Len(points) : Violates(op, score(points[i]), target)
               [] matchType = OnAverage ->
                    Satisfies(op, AvgScore(sum, Len(Usable(points))), target)
               [] matchType = InTotal ->
                    Satisfies(op, sum, target)
               [] OTHER -> FALSE

\* getMatchingSeries: the series of the result with the same label hash
getMatchingSeries(queryResult, lbl) ==
    IF lbl \in DOMAIN queryResult.series
    THEN [found |-> TRUE, points |-> queryResult.series[lbl]]
    ELSE [found |-> FALSE, points |-> <<>>]

------------------------------------------------------------------------------
(* The rule and its evaluation thread *)

VARIABLES
    rule,           \* the immutable part of the AnomalyRule: how it was built,
                    \* the hold duration it was configured with, its RuleCondition
    holdDuration,   \* r.holdDuration
    now,            \* the wall clock, time.Now(), in whole units
    active,         \* r.active: fingerprint -> Alert
    health,         \* r.health
    lastError,      \* r.lastError
    lastTimestampWithDatapoints,
    pc,             \* where the evaluation thread is in Eval
    ts,             \* Eval's ts argument
    prevState,      \* Eval's local prevState
    res,            \* Eval's local res, the Vector buildAndRunQuery returned
    itemsToAdd,     \* Eval's local itemsToAdd, the history records of the tick
    ret,            \* what Eval returned
    backend,        \* what the backend answered in this tick
    retries,        \* how many times this tick has been retried
    retry,          \* this call repeats the call before it: the same ts and
                    \* (from buildAndRunQuery on) the same backend answer
    prevRet,        \* what the call before it returned
    alerted,        \* label sets for which shouldAlert returned true in this tick
    scored,         \* whether shouldAlert was invoked in this tick
    removed,        \* the alerts this tick deleted from the table, as they were
    mtx,            \* r.mtx: "free", or "eval" while Eval holds it (the accessors
                    \* lock and unlock within one step)
    committed,      \* the table as the last holder of r.mtx left it
    preferredChannels,  \* the elements of the backing array of r.preferredChannels,
                    \* which every alert's Receivers slice points to
    snap,           \* the alert copies most recently handed out, by currentAlerts
                    \* or to the notify callback
    lastRead,       \* the most recent step of another thread: which accessor it
                    \* called, whether the accessor locked r.mtx, and whether Eval
                    \* held r.mtx at that moment
    dispatchedAt,   \* the ts of the scheduler's last call of SendAlerts
    cfg,            \* the PostableRule handed to NewAnomalyRule
    built,          \* what NewAnomalyRule and Validate returned for it
    evalWindow,     \* r.evalWindow
    evalDelay,      \* r.evalDelay
    heap,           \* the CompositeQuery objects by address: the one the rule's
                    \* condition points to and the ones copyCompositeQuery made
    params,         \* the anomalyParams prepareQueryRange returned
    rangeTs,        \* the ts of that call
    temporalityMap, \* r.temporalityMap
    fetched,        \* the metric names of each FetchTemporality call since
                    \* prepareQueryRange returned
    errs,           \* what populateTemporality returned for the windows so far
    planned,        \* how many times prepareQueryRange has been called
    rulesTable,     \* the committed rows of the table rules: id -> data
    tx,             \* the *sqlx.Tx a RuleDB call returned and its caller has
                    \* neither committed nor rolled back, with its writes
    dbRet           \* what the last call on the rule store returned

vars == <<rule, holdDuration, now, active, health, lastError,
          lastTimestampWithDatapoints, pc, ts, prevState, res, itemsToAdd, ret,
          backend, retries, retry, prevRet, alerted, scored, removed,
          mtx, committed, preferredChannels, snap, lastRead, dispatchedAt, cfg,
          built, evalWindow, evalDelay, heap, params, rangeTs, temporalityMap,
          fetched, errs, planned, rulesTable, tx, dbRet>>

\* the rule store
storeVars == <<rulesTable, tx, dbRet>>

\* the query windows and the temporality cache
rangeVars == <<evalWindow, evalDelay, heap, params, rangeTs, temporalityMap,
               fetched, errs, planned>>

\* what Eval and the accessors of the rule leave alone
planVars == <<rangeVars, storeVars>>

\* everything else
engineVars == <<rule, holdDuration, now, active, health, lastError,
                lastTimestampWithDatapoints, pc, ts, prevState, res, itemsToAdd,
                ret, backend, retries, retry, prevRet, alerted, scored, removed,
                mtx, committed, preferredChannels, snap, lastRead, dispatchedAt,
                cfg, built>>

-------------------------------------------------------------------------------
\* Query windows and temporality.  A time.Time and a time.Duration are counted
\* in half milliseconds, so that both can have a part below a millisecond; the
\* window boundaries are Unix milliseconds, as in QueryRangeParamsV3.

Millisecond == 2
Second == 1000 * Millisecond
Minute == 60 * Second
\* time.Hour.Milliseconds()
HourMillis == 60 * 60 * 1000

\* t.UnixMilli(): the milliseconds since the epoch, rounded towards the past
UnixMilli(t) == t \div Millisecond
\* d.Milliseconds() of a positive duration
Milliseconds(d) == d \div Millisecond
\* Go's a % b for b > 0: the remainder has the sign of a
GoRem(a, b) == IF a >= 0 THEN a % b ELSE -((-a) % b)
\* math.Max on whole numbers
MathMax(a, b) == IF a >= b THEN a ELSE b

Delta == "Delta"
Cumulative == "Cumulative"
Unspecified == "Unspecified"
DataSourceMetrics == "metrics"
DataSourceLogs == "logs"
PanelTypeGraph == "graph"
\* a nil map[v3.Temporality]bool, also what a lookup of an absent key returns
NilMap == {"nil"}

\* the fields of anomalyParams
Windows == {"CurrentPeriodQuery", "PastPeriodQuery", "CurrentWeekQuery", "PastWeekQuery"}
\* the order in which buildAndRunQuery resolves them
WindowOrder == <<"CurrentPeriodQuery", "PastPeriodQuery", "CurrentWeekQuery", "PastWeekQuery">>
\* the address r.ruleCondition.CompositeQuery holds
RuleAddr == "r.ruleCondition.CompositeQuery"
\* prepareQueryRange has not been called
NoParams == <<>>

\* the builder query "A" of TestAnomalyRuleNoData and its composite query
TestBuilderQuery ==
    [StepInterval |-> 60, Temporality |-> "", DataSource |-> DataSourceMetrics,
     Key |-> "signoz_calls_total"]
TestCompositeQuery ==
    [PanelType |-> "", BuilderQueries |-> [n \in {"A"} |-> TestBuilderQuery]]
MetricNames == {"signoz_calls_total", "signoz_latency_count"}
\* the cache of a new rule, and the one TestAnomalyRuleNoData sets
EmptyTemporalityMap == [m \in MetricNames |-> NilMap]
TestTemporalityMap ==
    [m \in MetricNames |-> IF m = "signoz_calls_total" THEN {Delta} ELSE NilMap]

\* the rule of TestAnomalyRuleNoData before its first prepareQueryRange
TestPlanner ==
    /\ evalWindow = 5 * Minute
    /\ evalDelay = 0
    /\ heap = [a \in {RuleAddr} |-> TestCompositeQuery]
    /\ params = NoParams
    /\ rangeTs = ZeroTime
    /\ temporalityMap = TestTemporalityMap
    /\ fetched = <<>>
    /\ errs = <<>>
    /\ planned = 0

\* a current window whose boundaries are not rounded
CurrentWindowUnrounded(t) ==
    LET start0 == UnixMilli(t - evalWindow)
        end0 == UnixMilli(t)
        start1 == IF evalDelay > 0 THEN start0 - Milliseconds(evalDelay) ELSE start0
        end1 == IF evalDelay > 0 THEN end0 - Milliseconds(evalDelay) ELSE end0
    IN  [Start |-> start1, End |-> end1]

\* the current window: start and end in Unix milliseconds
CurrentWindow(t) ==
    LET start0 == UnixMilli(t - evalWindow)
        end0 == UnixMilli(t)
        start1 == IF evalDelay > 0 THEN start0 - Milliseconds(evalDelay) ELSE start0
        end1 == IF evalDelay > 0 THEN end0 - Milliseconds(evalDelay) ELSE end0
    IN  [Start |-> start1 - GoRem(start1, 60 * 1000),
         End |-> end1 - GoRem(end1, 60 * 1000)]

\* four windows whose prior week is the 7 days before the week ending at end
WindowBoundsWeekByEnd(start, end) ==
    LET currentWeekStart == start - 7 * 24 * HourMillis
    IN  [CurrentPeriodQuery |-> [Start |-> start, End |-> end],
         PastPeriodQuery |-> [Start |-> start - 166 * HourMillis - 2 * HourMillis,
                              End |-> end - 166 * HourMillis + 2 * HourMillis],
         CurrentWeekQuery |-> [Start |-> currentWeekStart, End |-> end],
         PastWeekQuery |-> [Start |-> currentWeekStart - 7 * 24 * HourMillis,
                            End |-> end - 7 * 24 * HourMillis]]

\* the four windows of a current window [start, end]
WindowBounds(start, end) ==
    LET currentWeekStart == start - 7 * 24 * HourMillis
    IN  [CurrentPeriodQuery |-> [Start |-> start, End |-> end],
         PastPeriodQuery |-> [Start |-> start - 166 * HourMillis - 2 * HourMillis,
                              End |-> end - 166 * HourMillis + 2 * HourMillis],
         CurrentWeekQuery |-> [Start |-> currentWeekStart, End |-> end],
         PastWeekQuery |-> [Start |-> currentWeekStart - 7 * 24 * HourMillis,
                            End |-> currentWeekStart]]

\* the composite query with the step interval of every builder query set by f
WithStepInterval(cq, f(_)) ==
    [cq EXCEPT !.BuilderQueries =
        [n \in DOMAIN cq.BuilderQueries |->
            [cq.BuilderQueries[n] EXCEPT !.StepInterval = f(@)]]]

\* copyCompositeQuery: a new CompositeQuery with a new BuilderQuery for every
\* builder query of the rule's
copyCompositeQuery(stored) ==
    [PanelType |-> stored.PanelType,
     BuilderQueries |-> [n \in DOMAIN stored.BuilderQueries |-> stored.BuilderQueries[n]]]

\* prepareQueryRange(ts); minStep[w] is what common.MinAllowedStepInterval
\* returns for the boundaries of window w
PrepareQueryRange(t, minStep) ==
    /\ planned < MaxPlans
    /\ params = NoParams \/ Len(errs) = Len(WindowOrder)
    /\ LET cur == CurrentWindow(t)
           bounds == WindowBounds(cur.Start, cur.End)
           Raised(step) == IF step < minStep["CurrentPeriodQuery"]
                           THEN minStep["CurrentPeriodQuery"] ELSE step
           stored == [WithStepInterval(heap[RuleAddr], Raised)
                        EXCEPT !.PanelType = PanelTypeGraph]
           Copy(w) == LET Set(step) == MathMax(minStep[w], 60)
                      IN  WithStepInterval(copyCompositeQuery(stored), Set)
       IN  /\ heap' = [a \in {RuleAddr} \cup (Windows \ {"CurrentPeriodQuery"}) |->
                          IF a = RuleAddr THEN stored ELSE Copy(a)]
           /\ params' = [w \in Windows |->
                          [Start |-> bounds[w].Start,
                           End |-> bounds[w].End,
                           Step |-> MathMax(minStep[w], 60),
                           CompositeQuery |-> IF w = "CurrentPeriodQuery"
                                              THEN RuleAddr ELSE w]]
    /\ rangeTs' = t
    /\ planned' = planned + 1
    /\ fetched' = <<>>
    /\ errs' = <<>>
    /\ UNCHANGED <<evalWindow, evalDelay, temporalityMap>>
    /\ UNCHANGED storeVars
    /\ UNCHANGED engineVars

\* cumulative if the map has it, else delta if the map has it, else unspecified
PreferredCumulative(m) ==
    IF m # NilMap /\ Cumulative \in m THEN Cumulative
    ELSE IF m # NilMap /\ Delta \in m THEN Delta
    ELSE Unspecified

\* delta if the map has it, else cumulative if the map has it, else unspecified
Preferred(m) ==
    IF m # NilMap /\ Delta \in m THEN Delta
    ELSE IF m # NilMap /\ Cumulative \in m THEN Cumulative
    ELSE Unspecified

\* the first loop of populateTemporality on one builder query
FromCache(q) ==
    IF q.Temporality = "" /\ temporalityMap[q.Key] # NilMap
    THEN [q EXCEPT !.Temporality = Preferred(temporalityMap[q.Key])]
    ELSE q

\* the names in missingTemporality
MissingTemporality(bqs) ==
    {bqs[n].Key : n \in {k \in DOMAIN bqs : /\ bqs[k].DataSource = DataSourceMetrics
                                            /\ bqs[k].Temporality = ""}}

\* FetchTemporality: rows[m] are the temporalities the time series table has
\* for metric m; a requested metric without rows has no entry in the result
FetchTemporality(metricNames, rows) ==
    [m \in MetricNames |-> IF m \in metricNames /\ rows[m] # {} THEN rows[m] ELSE NilMap]

\* the second loop of populateTemporality on one builder query
FromFetch(q, nameToTemporality) ==
    IF q.DataSource = DataSourceMetrics /\ q.Temporality = ""
    THEN [q EXCEPT !.Temporality = Preferred(nameToTemporality[q.Key])]
    ELSE q

\* populateTemporality on the next window; f is the answer of the metadata
\* source should it be asked
PopulateTemporality(f) ==
    /\ params # NoParams
    /\ Len(errs) < Len(WindowOrder)
    /\ LET a == params[WindowOrder[Len(errs) + 1]].CompositeQuery
           bqs == heap[a].BuilderQueries
           cached == [n \in DOMAIN bqs |-> FromCache(bqs[n])]
           missing == MissingTemporality(cached)
           nameToTemporality == FetchTemporality(missing, f.rows)
       IN  IF missing = {}
           THEN /\ heap' = [heap EXCEPT ![a].BuilderQueries = cached]
                /\ errs' = Append(errs, NoError)
                /\ UNCHANGED <<temporalityMap, fetched>>
           ELSE /\ fetched' = Append(fetched, missing)
                /\ IF f.err
                   THEN /\ heap' = [heap EXCEPT ![a].BuilderQueries = cached]
                        /\ errs' = Append(errs, "FetchTemporality failed")
                        /\ UNCHANGED temporalityMap
                   ELSE /\ heap' = [heap EXCEPT ![a].BuilderQueries =
                                      [n \in DOMAIN bqs |->
                                          FromFetch(cached[n], nameToTemporality)]]
                        /\ temporalityMap' =
                              [m \in MetricNames |->
                                  IF m \in missing THEN nameToTemporality[m]
                                  ELSE temporalityMap[m]]
                        /\ errs' = Append(errs, NoError)
    /\ UNCHANGED <<evalWindow, evalDelay, params, rangeTs, planned>>
    /\ UNCHANGED storeVars
    /\ UNCHANGED engineVars

\* what the evaluation thread does not touch outside r.mtx
envVars == <<preferredChannels, snap, lastRead, dispatchedAt, cfg, built>>

\* the condition rules are built with: the one of TestAnomalyRuleNoData
\* (==, at least once, target 0)
Conditions ==
    { [CompareOp |-> ValueIsEq, MatchType |-> AtleastOnce, Target |-> 0] }

\* NewAnomalyRule fills the struct from the PostableRule; holdDuration is not
\* among the fields it sets, so it keeps Go's zero value
NewAnomalyRule(p) ==
    [ holdDuration |-> 0,
      active |-> <<>>,
      health |-> HealthUnknown,
      lastError |-> NoError,
      lastTimestampWithDatapoints |-> ZeroTime ]

\* an AnomalyRule built inside the package with its fields set directly, as the
\* package's test sets rule.temporalityMap
LiteralAnomalyRule(p) ==
    [ holdDuration |-> p.HoldDuration,
      active |-> <<>>,
      health |-> HealthUnknown,
      lastError |-> NoError,
      lastTimestampWithDatapoints |-> ZeroTime ]

NoReturn == [count |-> -1, err |-> NoError]
\* the backend's answer for one tick: which step failed (if any) and the results
\* of the selected query in the four windows
NoBackend == [fail |-> "unasked", cur |-> NilResult, prev |-> NilResult,
              week |-> NilResult, weekPrev |-> NilResult]

\* no transaction is open
NoTx == [state |-> "none", base |-> <<>>, pending |-> <<>>]
\* no call has been made on the rule store
NoCall == [op |-> "none", id |-> 0, tx |-> FALSE, err |-> NoError, rules |-> <<>>]
\* the rule store before any rule is stored
EmptyStore ==
    /\ rulesTable = <<>>
    /\ tx = NoTx
    /\ dbRet = NoCall

\* no alert copies have been handed out
NoSnapshot == [by |-> "none", alerts |-> <<>>]
\* no accessor has been called
NoRead == [op |-> "none", locked |-> TRUE, evalHeld |-> FALSE]

\* a *v3.CompositeQuery: nil, or its query type, what CompositeQuery.Validate
\* returns for it and how many PromQueries it holds
NilCompositeQuery == [present |-> FALSE, QueryType |-> "unknown", valid |-> "ok",
                      PromQueries |-> 0]
\* a *RuleCondition: nil, or its composite query, target pointer and operator
NilRuleCondition == [present |-> FALSE, CompositeQuery |-> NilCompositeQuery,
                     hasTarget |-> FALSE, CompareOp |-> ""]
\* the PostableRule of TestAnomalyRuleNoData
TestPostableRule ==
    [RuleCondition |->
        [present |-> TRUE,
         CompositeQuery |-> [present |-> TRUE, QueryType |-> "builder",
                             valid |-> "ok", PromQueries |-> 0],
         hasTarget |-> TRUE, CompareOp |-> ValueIsEq]]
\* nothing has been constructed from cfg
NotBuilt == [done |-> FALSE, rule |-> FALSE, err |-> NoError, validate |-> "uncalled"]

\* a label or annotation of the rule: its name, the template text of its value
\* and the error the template expander returns for it (nil if it expands)
OkTemplate == [Name |-> "summary", text |-> "{{$value}}", err |-> NoError]
BadTemplate == [Name |-> "summary", text |-> "{{.Missing}}",
                err |-> "can't evaluate field Missing"]
\* the label and annotation sets rules are built with
NoTemplates == {}
TemplateSets == {NoTemplates, {OkTemplate}, {BadTemplate}}

\* the rule after construction, with opts.SendAlways drawn from sendAlways, its
\* labels and annotations from templates and its condition from conds
InitCond(sendAlways, templates, conds) ==
    /\ rule \in [ builtBy : {"NewAnomalyRule", "literal"},
                  HoldDuration : {0, MaxHold},
                  AlertOnAbsent : BOOLEAN,
                  AbsentFor : 0..MaxAbsentFor,
                  SendAlways : sendAlways,
                  Labels : templates,
                  Annotations : templates,
                  cond : conds ]
    /\ LET r == IF rule.builtBy = "NewAnomalyRule"
                THEN NewAnomalyRule(rule) ELSE LiteralAnomalyRule(rule)
       IN  /\ holdDuration = r.holdDuration
           /\ active = r.active
           /\ health = r.health
           /\ lastError = r.lastError
           /\ lastTimestampWithDatapoints = r.lastTimestampWithDatapoints
    /\ now = 1
    /\ pc = "idle"
    /\ ts = ZeroTime
    /\ prevState = StateInactive
    /\ res = <<>>
    /\ itemsToAdd = {}
    /\ ret = NoReturn
    /\ backend = NoBackend
    /\ retries = 0
    /\ retry = FALSE
    /\ prevRet = NoReturn
    /\ alerted = {}
    /\ scored = FALSE
    /\ removed = <<>>
    /\ mtx = "free"
    /\ committed = <<>>
    /\ preferredChannels = <<"slack">>
    /\ snap = NoSnapshot
    /\ lastRead = NoRead
    /\ dispatchedAt = ZeroTime
    /\ cfg = TestPostableRule
    /\ built = NotBuilt
    /\ EmptyStore

\* the rule after construction, with the condition of the package's test
InitRule(sendAlways, templates) == InitCond(sendAlways, templates, Conditions)

\* a rule without labels and annotations
InitOpts(sendAlways) == InitRule(sendAlways, {NoTemplates}) /\ TestPlanner

\* a rule built with AnomalyRuleOpts{}, as the package's test builds it
Init == InitOpts({FALSE})

\* State: the maximum state of the alerts of the table
MaxOf(S) == CHOOSE x \in S : \A y \in S : y <= x
\* a state that looks at firing alerts only
StateFiringOnly(tbl) ==
    IF \E fp \in DOMAIN tbl : tbl[fp].State = StateFiring
    THEN StateFiring ELSE StateInactive

State(tbl) ==
    MaxOf({StateInactive} \cup {tbl[fp].State : fp \in DOMAIN tbl})

\* time passes without an evaluation
Tick ==
    /\ pc = "idle"
    /\ now < MaxTime
    /\ now' = now + 1
    /\ UNCHANGED <<rule, holdDuration, active, health, lastError,
                   lastTimestampWithDatapoints, pc, ts, prevState, res,
                   itemsToAdd, ret, backend, retries, retry, prevRet, alerted, scored,
                   removed, mtx, committed>>
    /\ UNCHANGED envVars
    /\ UNCHANGED planVars

\* the entry of Eval(ctx, t, queriers): Eval reads prevState
EvalEnter(t, again) ==
    /\ pc' = "query"
    /\ ts' = t
    /\ prevState' = State(active)
    /\ res' = <<>>
    /\ itemsToAdd' = {}
    /\ retries' = IF again THEN retries + 1 ELSE 0
    /\ retry' = again
    /\ prevRet' = ret
    /\ alerted' = {}
    /\ scored' = FALSE
    /\ removed' = <<>>
    /\ UNCHANGED <<rule, holdDuration, active, health, lastError,
                   lastTimestampWithDatapoints, ret, backend, mtx, committed>>
    /\ UNCHANGED envVars
    /\ UNCHANGED planVars

\* the scheduler's tick: Eval at the current time
EvalCall ==
    /\ pc = "idle"
    /\ EvalEnter(now, FALSE)
    /\ UNCHANGED now

\* after a call returned, the scheduler calls Eval again with the same ts, at
\* once or one unit of time later
EvalRetry(wait) ==
    /\ pc = "done"
    /\ retries < MaxRetries
    /\ now + wait <= MaxTime
    /\ now' = now + wait
    /\ EvalEnter(ts, TRUE)

\* the call is over and its locals are gone; the scheduler's next tick comes
\* at a later time
EvalReturn ==
    /\ pc = "done"
    /\ now < MaxTime
    /\ now' = now + 1
    /\ pc' = "idle"
    /\ ts' = ZeroTime
    /\ prevState' = StateInactive
    /\ res' = <<>>
    /\ itemsToAdd' = {}
    /\ ret' = NoReturn
    /\ backend' = NoBackend
    /\ retries' = 0
    /\ retry' = FALSE
    /\ prevRet' = NoReturn
    /\ alerted' = {}
    /\ scored' = FALSE
    /\ removed' = <<>>
    /\ UNCHANGED <<rule, holdDuration, active, health, lastError,
                   lastTimestampWithDatapoints, mtx, committed>>
    /\ UNCHANGED envVars
    /\ UNCHANGED planVars

------------------------------------------------------------------------------
(* buildAndRunQuery *)

\* results the backend returns for the selected query
CurResults ==
    { NilResult,
      Result(<<>>),
      Result([l \in {"a"} |-> <<1>>]),
      Result([l \in {"a", "b"} |-> IF l = "a" THEN <<3>> ELSE <<1, 3>>]) }


FullPrev == Result([l \in SeriesLabels |-> <<1>>])
FullWeek == Result([l \in SeriesLabels |-> <<0, 2>>])
FullWeekPrev == Result([l \in SeriesLabels |-> <<1>>])

TwoSeries == Result([l \in {"a", "b"} |-> IF l = "a" THEN <<3>> ELSE <<1, 3>>])

Backends ==
    { [fail |-> f, cur |-> NilResult, prev |-> NilResult, week |-> NilResult,
       weekPrev |-> NilResult] : f \in {"temporality", "query", "postprocess"} }
    \cup
    { [fail |-> "none", cur |-> c, prev |-> FullPrev, week |-> FullWeek,
       weekPrev |-> FullWeekPrev] : c \in CurResults }
    \cup
    { [fail |-> "none", cur |-> TwoSeries, prev |-> FullPrev,
       week |-> Result([l \in {"a"} |-> <<0, 2>>]), weekPrev |-> FullWeekPrev],
      [fail |-> "none", cur |-> TwoSeries, prev |-> FullPrev, week |-> FullWeek,
       weekPrev |-> NilResult] }

\* the error buildAndRunQuery returns when a backend step fails
BackendError(b) ==
    CASE b.fail = "temporality" -> ErrTemporality
      [] b.fail = "query" -> ErrQuerying
      [] b.fail = "postprocess" -> ErrPostprocessing
      [] OTHER -> NoError

\* currQueryResult != nil && len(currQueryResult.Series) > 0
HasDatapoints(cur) == cur.present /\ DOMAIN cur.series # {}

\* a.Before(b) for a time a in whole units and a reading b of time.Now() that
\* is clock, or later than clock by less than a unit
Before(a, clock, late) == a < clock \/ (late /\ a = clock)

\* r.ruleCondition.AlertOnAbsent &&
\*   r.lastTimestampWithDatapoints.Add(AbsentFor * time.Minute).Before(time.Now())
\* (the zero time plus any AbsentFor is centuries before every clock reading)
IsAbsent(r, lastSeen, clock, late) ==
    /\ r.AlertOnAbsent
    /\ (lastSeen = ZeroTime \/ Before(lastSeen + r.AbsentFor, clock, late))

\* a synthetic sample that is labelled with the last-seen timestamp whatever
\* it is
MissingSampleLabelled(lastSeen) ==
    [Metric |-> {<<"lastSeen", lastSeen>>}, IsMissing |-> TRUE]

\* the synthetic sample of the absence branch: the lastSeen label is set only
\* when the last-seen timestamp is not the zero time
MissingSample(lastSeen) ==
    [Metric |-> IF lastSeen # ZeroTime THEN {<<"lastSeen", lastSeen>>} ELSE {},
     IsMissing |-> TRUE]

\* the loop over currQueryResult.Series dereferences currQueryResult, and
\* getMatchingSeries dereferences each baseline result once per series
ScoringPanics(b) ==
    \/ ~b.cur.present
    \/ /\ DOMAIN b.cur.series # {}
       /\ (~b.prev.present \/ ~b.week.present \/ ~b.weekPrev.present)

\* the label sets of the current series for which shouldAlert returns true
Alerting(cond, b) ==
    { l \in DOMAIN b.cur.series :
        shouldAlert(cond.MatchType, cond.CompareOp, cond.Target, b.cur.series[l],
                    getMatchingSeries(b.prev, l), getMatchingSeries(b.week, l),
                    getMatchingSeries(b.weekPrev, l)) }

\* the Vector of the scoring loop: a series that should alert is only printed,
\* nothing is appended to resultVector
ScoredVector(cond, b) == <<>>

\* an error return that marks the health but does not record the error
EvalAbortHealthOnly(err) ==
    /\ health' = HealthBad
    /\ ret' = [count |-> -1, err |-> err]
    /\ pc' = "done"
    /\ UNCHANGED <<active, lastError>>

\* Eval's error return: SetHealth(HealthBad), SetLastError(err), return nil, err
EvalAbort(err) ==
    /\ health' = HealthBad
    /\ lastError' = err
    /\ ret' = [count |-> -1, err |-> err]
    /\ pc' = "done"
    /\ UNCHANGED active

\* buildAndRunQuery as called by Eval.  b is the backend's answer; late tells
\* whether the reading of time.Now() in the absence check is later than the
\* reading stored as the last-seen timestamp.
BuildAndRunQuery(b, late) ==
    /\ pc = "query"
    /\ backend' = b
    /\ retry' = (retry /\ b = backend)
    /\ IF b.fail # "none"
       THEN /\ EvalAbort(BackendError(b))
            /\ UNCHANGED <<lastTimestampWithDatapoints, res, alerted, scored>>
       ELSE LET seen == IF HasDatapoints(b.cur) THEN now
                        ELSE lastTimestampWithDatapoints
            IN  /\ lastTimestampWithDatapoints' = seen
                /\ IF IsAbsent(rule, seen, now, late)
                   THEN /\ res' = <<MissingSample(seen)>>
                        /\ pc' = "transition"
                        /\ UNCHANGED <<alerted, scored>>
                   ELSE IF ScoringPanics(b)
                   THEN /\ pc' = "panicked"
                        /\ UNCHANGED <<res, alerted, scored>>
                   ELSE /\ res' = ScoredVector(rule.cond, b)
                        /\ alerted' = Alerting(rule.cond, b)
                        /\ scored' = (DOMAIN b.cur.series # {})
                        /\ pc' = "transition"
                /\ UNCHANGED <<active, health, lastError, ret>>
    /\ UNCHANGED <<rule, holdDuration, now, ts, prevState, itemsToAdd, retries,
                   prevRet, removed, mtx, committed>>
    /\ UNCHANGED envVars
    /\ UNCHANGED planVars

------------------------------------------------------------------------------
(* Eval: the transition pass (under r.mtx) *)

\* tmpl.Expand(): the expanded text, or the expander's error
Expand(tmpl) ==
    [result |-> IF tmpl.err = NoError THEN <<"expanded", tmpl.text>> ELSE "",
     err |-> tmpl.err]

\* expand: the expanded text, or the error as inline text
expand(tmpl) ==
    IF Expand(tmpl).err # NoError
    THEN <<"<error expanding template: %s>", Expand(tmpl).err>>
    ELSE Expand(tmpl).result

\* the expanded labels or annotations of the rule
Expanded(templates) == {<<l.Name, expand(l)>> : l \in templates}

\* the alert's label set: the sample's labels, the rule's labels expanded,
\* then alertname (prefixed for a missing-data sample), ruleId and ruleSource.
\* The fingerprint lbs.Hash() is modelled by the label set itself.
AlertLabels(smpl) ==
    smpl.Metric \cup Expanded(rule.Labels) \cup
    {<<"alertname", IF smpl.IsMissing THEN "[No data] rule" ELSE "rule">>}

Fingerprint(smpl) == AlertLabels(smpl)

\* the Alert inserted for a sample
NewAlert(smpl, t) ==
    [State |-> StatePending, ActiveAt |-> t, FiredAt |-> ZeroTime,
     ResolvedAt |-> ZeroTime, LastSentAt |-> ZeroTime, ValidUntil |-> ZeroTime,
     Missing |-> smpl.IsMissing, Receivers |-> "r.preferredChannels",
     Annotations |-> Expanded(rule.Annotations)]

\* if _, ok := alerts[h]; ok: a later sample has the fingerprint of an earlier one
HasDuplicate(vec) ==
    \E i, j \in 1..Len(vec) : i < j /\ Fingerprint(vec[i]) = Fingerprint(vec[j])

ResultFPs(vec) == {Fingerprint(vec[i]) : i \in 1..Len(vec)}

SampleOf(vec, fp) == CHOOSE smpl \in {vec[i] : i \in 1..Len(vec)} : Fingerprint(smpl) = fp

\* a first loop that inserts the new alert for every sample
AddOrReplace(tbl, vec, t) ==
    [fp \in DOMAIN tbl \cup ResultFPs(vec) |->
        IF fp \in ResultFPs(vec)
        THEN NewAlert(SampleOf(vec, fp), t)
        ELSE tbl[fp]]

\* a first loop that keeps every entry that is in the table, inactive or not
AddOrKeep(tbl, vec, t) ==
    [fp \in DOMAIN tbl \cup ResultFPs(vec) |->
        IF fp \in ResultFPs(vec)
        THEN (IF fp \in DOMAIN tbl
              THEN [tbl[fp] EXCEPT
                      !.Annotations = NewAlert(SampleOf(vec, fp), t).Annotations,
                      !.Receivers = NewAlert(SampleOf(vec, fp), t).Receivers]
              ELSE NewAlert(SampleOf(vec, fp), t))
        ELSE tbl[fp]]

\* first loop: keep an entry that is in the table and not inactive (only its
\* value, annotations and receivers change), insert the new alert otherwise
AddOrUpdate(tbl, vec, t) ==
    [fp \in DOMAIN tbl \cup ResultFPs(vec) |->
        IF fp \in ResultFPs(vec)
        THEN (IF fp \in DOMAIN tbl /\ tbl[fp].State # StateInactive
              THEN [tbl[fp] EXCEPT
                      !.Annotations = NewAlert(SampleOf(vec, fp), t).Annotations,
                      !.Receivers = NewAlert(SampleOf(vec, fp), t).Receivers]
              ELSE NewAlert(SampleOf(vec, fp), t))
        ELSE tbl[fp]]

\* the retention comparison with >= in place of >
ShouldDeleteEarly(a, t) ==
    \/ a.State = StatePending
    \/ (a.ResolvedAt # ZeroTime /\ t - a.ResolvedAt >= resolvedRetention)

\* a.State == StatePending ||
\*   (!a.ResolvedAt.IsZero() && ts.Sub(a.ResolvedAt) > resolvedRetention)
ShouldDelete(a, t) ==
    \/ a.State = StatePending
    \/ (a.ResolvedAt # ZeroTime /\ t - a.ResolvedAt > resolvedRetention)

\* the hold comparison with > in place of >=
ShouldFireLate(a, t, hold) ==
    a.State = StatePending /\ t - a.ActiveAt > hold

\* a.State == StatePending && ts.Sub(a.ActiveAt) >= r.holdDuration
ShouldFire(a, t, hold) ==
    a.State = StatePending /\ t - a.ActiveAt >= hold

\* a second loop that resolves an alert without stamping ResolvedAt
AdvanceUnstamped(tbl, fps, t, hold) ==
    LET kept == {fp \in DOMAIN tbl : fp \in fps \/ ~ShouldDelete(tbl[fp], t)}
    IN  [fp \in kept |->
            IF fp \notin fps
            THEN [tbl[fp] EXCEPT !.State = StateInactive]
            ELSE IF ShouldFire(tbl[fp], t, hold)
            THEN [tbl[fp] EXCEPT !.State = StateFiring, !.FiredAt = t]
            ELSE tbl[fp]]

\* second loop, table side
Advance(tbl, fps, t, hold) ==
    LET kept == {fp \in DOMAIN tbl : fp \in fps \/ ~ShouldDelete(tbl[fp], t)}
    IN  [fp \in kept |->
            IF fp \notin fps
            THEN (IF tbl[fp].State # StateInactive
                  THEN [tbl[fp] EXCEPT !.State = StateInactive, !.ResolvedAt = t]
                  ELSE tbl[fp])
            ELSE IF ShouldFire(tbl[fp], t, hold)
            THEN [tbl[fp] EXCEPT !.State = StateFiring, !.FiredAt = t]
            ELSE tbl[fp]]

\* a history side that records "normal" for every unmatched alert, inactive
\* ones included
RecordsAllUnmatched(tbl, fps, t, hold) ==
    { [alert |-> fp, State |-> "normal", UnixMilli |-> t] :
        fp \in {f \in DOMAIN tbl : f \notin fps} }
    \cup
    { [alert |-> fp, State |-> IF tbl[fp].Missing THEN "no_data" ELSE "firing",
       UnixMilli |-> t] :
        fp \in {f \in DOMAIN tbl : f \in fps /\ ShouldFire(tbl[f], t, hold)} }

\* second loop, history side: a "normal" record for every unmatched alert that
\* was not inactive (deleted from the table or not), a "firing" or "no_data"
\* record for every alert that fires
Records(tbl, fps, t, hold) ==
    { [alert |-> fp, State |-> "normal", UnixMilli |-> t] :
        fp \in {f \in DOMAIN tbl : f \notin fps /\ tbl[f].State # StateInactive} }
    \cup
    { [alert |-> fp, State |-> IF tbl[fp].Missing THEN "no_data" ELSE "firing",
       UnixMilli |-> t] :
        fp \in {f \in DOMAIN tbl : f \in fps /\ ShouldFire(tbl[f], t, hold)} }

\* the pass from r.mtx.Lock() to the end of the second loop, in one step; a
\* duplicate fingerprint returns (and the deferred Unlock runs) before the
\* table is touched
EvalTransition ==
    /\ pc = "transition"
    /\ mtx = "free"
    /\ IF HasDuplicate(res)
       THEN /\ health' = HealthBad
            /\ lastError' = ErrDuplicate
            /\ ret' = [count |-> -1, err |-> ErrDuplicate]
            /\ pc' = "done"
            /\ UNCHANGED <<active, itemsToAdd, removed, mtx, committed>>
       ELSE LET merged == AddOrUpdate(active, res, ts)
                next == Advance(merged, ResultFPs(res), ts, holdDuration)
            IN  /\ active' = next
                /\ mtx' = "eval"
                /\ committed' = next
                /\ removed' = [fp \in DOMAIN merged \ DOMAIN next |-> merged[fp]]
                /\ itemsToAdd' = Records(merged, ResultFPs(res), ts, holdDuration)
                /\ pc' = "history"
                /\ UNCHANGED <<health, lastError, ret>>
    /\ UNCHANGED <<rule, holdDuration, now, lastTimestampWithDatapoints, ts,
                   prevState, res, backend, retries, retry, prevRet, alerted, scored>>
    /\ UNCHANGED envVars
    /\ UNCHANGED planVars

\* the overall state of the records, AddRuleStateHistory (its failure is only
\* logged), health and lastError, and the return of len(r.active), after which
\* the deferred r.mtx.Unlock() runs
OverallState(cur) ==
    CASE cur = StateInactive -> "normal"
      [] cur = StatePending -> "pending"
      [] cur = StateFiring -> "firing"
      [] OTHER -> "disabled"

StateString(cur) ==
    CASE cur = StateInactive -> "inactive"
      [] cur = StatePending -> "pending"
      [] cur = StateFiring -> "firing"
      [] OTHER -> "disabled"

\* a count of the unresolved alerts only
ActiveCountUnresolved(tbl) ==
    Cardinality({fp \in DOMAIN tbl : tbl[fp].ResolvedAt = ZeroTime})

\* return len(r.active), nil
ActiveCount(tbl) == Cardinality(DOMAIN tbl)

\* an end of the tick that keeps the error of AddRuleStateHistory in lastError
EvalFinishKeepsError(historyOk) ==
    /\ pc = "history"
    /\ LET currentState == State(active)
       IN  itemsToAdd' =
             { [alert |-> i.alert, State |-> i.State, UnixMilli |-> i.UnixMilli,
                OverallState |-> IF currentState # prevState
                                 THEN OverallState(currentState)
                                 ELSE StateString(currentState),
                OverallStateChanged |-> (currentState # prevState)] : i \in itemsToAdd }
    /\ health' = HealthGood
    /\ lastError' = IF historyOk THEN NoError ELSE "error while inserting rule state history"
    /\ ret' = [count |-> ActiveCount(active), err |-> NoError]
    /\ pc' = "done"
    /\ mtx' = "free"
    /\ UNCHANGED <<rule, holdDuration, now, active, lastTimestampWithDatapoints,
                   ts, prevState, res, backend, retries, retry, prevRet, alerted, scored,
                   removed, committed>>
    /\ UNCHANGED envVars
    /\ UNCHANGED planVars

EvalFinish(historyOk) ==
    /\ pc = "history"
    /\ LET currentState == State(active)
       IN  itemsToAdd' =
             { [alert |-> i.alert, State |-> i.State, UnixMilli |-> i.UnixMilli,
                OverallState |-> IF currentState # prevState
                                 THEN OverallState(currentState)
                                 ELSE StateString(currentState),
                OverallStateChanged |-> (currentState # prevState)] : i \in itemsToAdd }
    /\ health' = HealthGood
    /\ lastError' = NoError
    /\ ret' = [count |-> ActiveCount(active), err |-> NoError]
    /\ pc' = "done"
    /\ mtx' = "free"
    /\ UNCHANGED <<rule, holdDuration, now, active, lastTimestampWithDatapoints,
                   ts, prevState, res, backend, retries, retry, prevRet, alerted, scored,
                   removed, committed>>
    /\ UNCHANGED envVars
    /\ UNCHANGED planVars

------------------------------------------------------------------------------
(* Eval's transition pass in the steps another thread can interleave with *)

\* r.mtx.Lock() and the loop that builds the local alerts map: a duplicate
\* fingerprint returns at once (the deferred Unlock runs)
EvalLock ==
    /\ pc = "transition"
    /\ mtx = "free"
    /\ IF HasDuplicate(res)
       THEN /\ health' = HealthBad
            /\ lastError' = ErrDuplicate
            /\ ret' = [count |-> -1, err |-> ErrDuplicate]
            /\ pc' = "done"
            /\ UNCHANGED mtx
       ELSE /\ mtx' = "eval"
            /\ pc' = "merge"
            /\ UNCHANGED <<health, lastError, ret>>
    /\ UNCHANGED <<rule, holdDuration, now, active, lastTimestampWithDatapoints, ts,
                   prevState, res, itemsToAdd, backend, retries, retry, prevRet,
                   alerted, scored, removed, committed>>
    /\ UNCHANGED envVars
    /\ UNCHANGED planVars

\* a first loop that also marks the rule healthy
EvalMergeMarksHealth ==
    /\ pc = "merge"
    /\ active' = AddOrUpdate(active, res, ts)
    /\ health' = HealthGood
    /\ lastError' = NoError
    /\ pc' = "advance"
    /\ UNCHANGED <<rule, holdDuration, now,
                   lastTimestampWithDatapoints, ts, prevState, res, itemsToAdd, ret,
                   backend, retries, retry, prevRet, alerted, scored, removed, mtx,
                   committed>>
    /\ UNCHANGED envVars
    /\ UNCHANGED planVars

\* the first loop: add or update the active list
EvalMerge ==
    /\ pc = "merge"
    /\ active' = AddOrUpdate(active, res, ts)
    /\ pc' = "advance"
    /\ UNCHANGED <<rule, holdDuration, now, health, lastError,
                   lastTimestampWithDatapoints, ts, prevState, res, itemsToAdd, ret,
                   backend, retries, retry, prevRet, alerted, scored, removed, mtx,
                   committed>>
    /\ UNCHANGED envVars
    /\ UNCHANGED planVars

\* the second loop: remove, resolve or fire
EvalAdvance ==
    /\ pc = "advance"
    /\ LET next == Advance(active, ResultFPs(res), ts, holdDuration)
       IN  /\ active' = next
           /\ committed' = next
           /\ removed' = [fp \in DOMAIN active \ DOMAIN next |-> active[fp]]
           /\ itemsToAdd' = Records(active, ResultFPs(res), ts, holdDuration)
    /\ pc' = "history"
    /\ UNCHANGED <<rule, holdDuration, now, health, lastError,
                   lastTimestampWithDatapoints, ts, prevState, res, ret, backend,
                   retries, retry, prevRet, alerted, scored, mtx>>
    /\ UNCHANGED envVars
    /\ UNCHANGED planVars

------------------------------------------------------------------------------
(* Accessors and dispatch, called by other threads *)

\* what a call of an accessor leaves alone
evalVars == <<rule, holdDuration, now, health, lastError,
              lastTimestampWithDatapoints, pc, ts, prevState, res, itemsToAdd, ret,
              backend, retries, retry, prevRet, alerted, scored, removed, mtx>>

\* ActiveAlerts: the copies of currentAlerts whose ResolvedAt is zero
ActiveAlerts(tbl) == {fp \in DOMAIN tbl : tbl[fp].ResolvedAt = ZeroTime}

\* a needsSending that looks at the resend delay only
needsSendingByDelay(a, t, resendDelay) ==
    IF a.State = StatePending THEN FALSE
    ELSE a.LastSentAt = ZeroTime \/ a.LastSentAt + resendDelay < t

\* Alert.needsSending(ts, resendDelay)  (the zero time plus any resendDelay is
\* centuries before ts)
needsSending(a, t, resendDelay) ==
    IF a.State = StatePending THEN FALSE
    ELSE IF a.ResolvedAt > a.LastSentAt THEN TRUE
    ELSE a.LastSentAt = ZeroTime \/ a.LastSentAt + resendDelay < t

\* a dispatch that honours needsSending even when opts.SendAlways is set
ShouldSendByPolicy(sendAlways, a, t, resendDelay) ==
    needsSending(a, t, resendDelay)

\* r.opts.SendAlways || alert.needsSending(ts, resendDelay)
ShouldSend(sendAlways, a, t, resendDelay) ==
    sendAlways \/ needsSending(a, t, resendDelay)

\* a validity of 4 * resendDelay, whatever the interval
SendDeltaDelayOnly(resendDelay, interval) == resendDelay

\* delta := resendDelay; if interval > resendDelay { delta = interval }
SendDelta(resendDelay, interval) ==
    IF interval > resendDelay THEN interval ELSE resendDelay

\* SendAlerts(ctx, ts, resendDelay, interval, notifyFunc) with ts the current
\* time: under r.mtx (ForEachActiveAlert) every alert to send gets LastSentAt
\* and ValidUntil and is copied; the copies go to notifyFunc
SendAlerts(resendDelay, interval) ==
    /\ mtx = "free"
    /\ LET toSend == {fp \in DOMAIN active :
                         ShouldSend(rule.SendAlways, active[fp], now, resendDelay)}
           updated == [fp \in DOMAIN active |->
                         IF fp \in toSend
                         THEN [active[fp] EXCEPT
                                 !.LastSentAt = now,
                                 !.ValidUntil = now + 4 * SendDelta(resendDelay, interval)]
                         ELSE active[fp]]
       IN  /\ active' = updated
           /\ committed' = updated
           /\ snap' = [by |-> "SendAlerts", alerts |-> [fp \in toSend |-> updated[fp]]]
    /\ lastRead' = [op |-> "SendAlerts", locked |-> TRUE, evalHeld |-> FALSE]
    /\ UNCHANGED evalVars
    /\ UNCHANGED planVars
    /\ UNCHANGED <<preferredChannels, cfg, built>>

\* currentAlerts without r.mtx
CurrentAlertsUnlocked ==
    /\ snap' = [by |-> "currentAlerts", alerts |-> active]
    /\ lastRead' = [op |-> "currentAlerts", locked |-> FALSE, evalHeld |-> (mtx = "eval")]
    /\ UNCHANGED evalVars
    /\ UNCHANGED planVars
    /\ UNCHANGED <<active, committed, preferredChannels, dispatchedAt, cfg, built>>

\* currentAlerts (and ActiveAlerts, which filters its result): under r.mtx,
\* anew := *a for every alert of the table
CurrentAlerts ==
    /\ mtx = "free"
    /\ snap' = [by |-> "currentAlerts", alerts |-> active]
    /\ lastRead' = [op |-> "currentAlerts", locked |-> TRUE, evalHeld |-> FALSE]
    /\ UNCHANGED evalVars
    /\ UNCHANGED planVars
    /\ UNCHANGED <<active, committed, preferredChannels, dispatchedAt, cfg, built>>

\* Health (LastError, GetEvaluationTimestamp, GetEvaluationDuration alike):
\* Lock, read, Unlock
HealthCall ==
    /\ mtx = "free"
    /\ lastRead' = [op |-> "Health", locked |-> TRUE, evalHeld |-> FALSE]
    /\ UNCHANGED evalVars
    /\ UNCHANGED planVars
    /\ UNCHANGED <<active, committed, preferredChannels, snap, dispatchedAt, cfg, built>>

\* State(): ranges over r.active without taking r.mtx, whoever holds it.  What
\* it returns while Eval is writing the map is not defined (any state, or the
\* runtime's fatal error); only the access itself is recorded.
StateCall ==
    /\ lastRead' = [op |-> "State", locked |-> FALSE, evalHeld |-> (mtx = "eval")]
    /\ UNCHANGED evalVars
    /\ UNCHANGED planVars
    /\ UNCHANGED <<active, committed, preferredChannels, snap, dispatchedAt, cfg, built>>

\* the holder of the copies assigns a field of one of them
ClientSetField ==
    /\ \E fp \in DOMAIN snap.alerts :
          snap' = [snap EXCEPT !.alerts[fp].State = StateDisabled]
    /\ lastRead' = [op |-> "client", locked |-> FALSE, evalHeld |-> (mtx = "eval")]
    /\ UNCHANGED evalVars
    /\ UNCHANGED planVars
    /\ UNCHANGED <<active, committed, preferredChannels, dispatchedAt, cfg, built>>

\* the holder of the copies writes an element of a copy's Receivers slice, whose
\* backing array is the one of r.preferredChannels and of every alert
ClientWriteReceivers ==
    /\ DOMAIN snap.alerts # {}
    /\ Len(preferredChannels) > 0
    /\ preferredChannels' = [preferredChannels EXCEPT ![1] = "edited"]
    /\ lastRead' = [op |-> "client", locked |-> FALSE, evalHeld |-> (mtx = "eval")]
    /\ UNCHANGED evalVars
    /\ UNCHANGED planVars
    /\ UNCHANGED <<active, committed, snap, dispatchedAt, cfg, built>>

------------------------------------------------------------------------------
(* Construction: RuleCondition.Validate and the checks of NewAnomalyRule *)

\* the errors of Validate
ErrInvalidCompositeQuery == "invalid composite query"
ErrNilCompositeQuery == "composite query is nil"
ErrNilTarget == "target is nil"
ErrInvalidCompareOp == "invalid compare op"
ErrNoPromQLQuery == "no promql query"
\* the errors of NewAnomalyRule
ErrNoRuleCondition == "no rule condition"
ErrInvalidRuleCondition == "invalid rule condition"

\* v3.QueryType
QueryTypeUnknown == "unknown"
QueryTypeBuilder == "builder"
QueryTypeClickHouseSQL == "clickhouse_sql"
QueryTypePromQL == "promql"

\* rc.QueryType()
QueryType(rc) ==
    IF rc.CompositeQuery.present THEN rc.CompositeQuery.QueryType ELSE QueryTypeUnknown

\* Validate without the check of the PromQL queries
ValidateNoPromQL(rc) ==
    IF ~rc.CompositeQuery.present THEN ErrNilCompositeQuery
    ELSE IF rc.CompositeQuery.valid = "other" THEN ErrInvalidCompositeQuery
    ELSE IF QueryType(rc) = QueryTypeBuilder /\ ~rc.hasTarget THEN ErrNilTarget
    ELSE IF QueryType(rc) = QueryTypeBuilder /\ rc.CompareOp = "" THEN ErrInvalidCompareOp
    ELSE NoError

\* rc.Validate(); what CompositeQuery.Validate returns for the sanitized query
\* is a field of the input: "ok", "ErrInvalidPanelType" (tolerated) or "other"
Validate(rc) ==
    IF ~rc.CompositeQuery.present THEN ErrNilCompositeQuery
    ELSE IF rc.CompositeQuery.valid = "other" THEN ErrInvalidCompositeQuery
    ELSE IF QueryType(rc) = QueryTypeBuilder /\ ~rc.hasTarget THEN ErrNilTarget
    ELSE IF QueryType(rc) = QueryTypeBuilder /\ rc.CompareOp = "" THEN ErrInvalidCompareOp
    ELSE IF QueryType(rc) = QueryTypePromQL /\ rc.CompositeQuery.PromQueries = 0
         THEN ErrNoPromQLQuery
    ELSE NoError

\* rc.IsValid(): the condition passes the checks of Validate
IsValid(rc) == Validate(rc) = NoError

\* the error NewAnomalyRule returns for p, nil if it returns a rule
NewAnomalyRuleError(p) ==
    IF ~p.RuleCondition.present THEN ErrNoRuleCondition
    ELSE IF ~IsValid(p.RuleCondition) THEN ErrInvalidRuleCondition
    ELSE NoError

\* NewAnomalyRule(id, cfg, opts, ...) is called
Construct ==
    /\ ~built.done
    /\ LET err == NewAnomalyRuleError(cfg)
       IN  built' = [built EXCEPT !.done = TRUE, !.rule = (err = NoError), !.err = err]
    /\ UNCHANGED evalVars
    /\ UNCHANGED planVars
    /\ UNCHANGED <<active, committed, preferredChannels, snap, lastRead, dispatchedAt, cfg>>

\* cfg.RuleCondition.Validate() is called (on a non-nil condition)
ValidateCall ==
    /\ cfg.RuleCondition.present
    /\ built.validate = "uncalled"
    /\ built' = [built EXCEPT !.validate = Validate(cfg.RuleCondition)]
    /\ UNCHANGED evalVars
    /\ UNCHANGED planVars
    /\ UNCHANGED <<active, committed, preferredChannels, snap, lastRead, dispatchedAt, cfg>>

\* the scheduler evaluates the rule NewAnomalyRule returned
EvalBuilt ==
    /\ built.rule
    /\ EvalCall

\* the composite queries and rule conditions rules are configured with
CompositeQueries ==
    {NilCompositeQuery} \cup
    [present : {TRUE},
     QueryType : {QueryTypeBuilder, QueryTypeClickHouseSQL, QueryTypePromQL},
     valid : {"ok", "ErrInvalidPanelType", "other"},
     PromQueries : {0, 1}]

RuleConditions ==
    {NilRuleCondition} \cup
    [present : {TRUE},
     CompositeQuery : CompositeQueries,
     hasTarget : BOOLEAN,
     CompareOp : {"", CompareOpNone, ValueIsEq}]

PostableRules == [RuleCondition : RuleConditions]

------------------------------------------------------------------------------

Next ==
    \/ Tick
    \/ EvalCall
    \/ \E b \in Backends, late \in BOOLEAN : BuildAndRunQuery(b, late)
    \/ EvalTransition
    \/ \E ok \in BOOLEAN : EvalFinish(ok)
    \/ EvalReturn

Spec == Init /\ [][Next]_vars

\* the engine with a scheduler that retries ticks
NextRetry == Next \/ \E wait \in {0, 1} : EvalRetry(wait)

SpecRetry == Init /\ [][NextRetry]_vars

\* Eval with its pass under r.mtx in its steps
NextEval ==
    \/ Tick
    \/ EvalCall
    \/ \E b \in Backends, late \in BOOLEAN : BuildAndRunQuery(b, late)
    \/ EvalLock
    \/ EvalMerge
    \/ EvalAdvance
    \/ \E ok \in BOOLEAN : EvalFinish(ok)
    \/ EvalReturn

\* the scheduler dispatches once after Eval has returned, with Eval's ts
Dispatch(resendDelay, interval) ==
    /\ pc = "done"
    /\ dispatchedAt # ts
    /\ dispatchedAt' = ts
    /\ SendAlerts(resendDelay, interval)

\* the engine with the dispatcher
NextSend ==
    \/ NextEval
    \/ \E resendDelay \in {0, MaxResendDelay}, interval \in {MaxInterval} :
          Dispatch(resendDelay, interval)

\* rules that raise alerts: absence alerting without delay, built by
\* NewAnomalyRule with AnomalyRuleOpts{}, or with the configured hold duration
\* in the field, with and without opts.SendAlways
InitAlerting ==
    /\ InitOpts(BOOLEAN)
    /\ rule.AlertOnAbsent
    /\ rule.AbsentFor = 0
    /\ (rule.builtBy = "literal") = (rule.HoldDuration > 0)
    /\ (rule.builtBy = "NewAnomalyRule") => ~rule.SendAlways

SpecSend == InitAlerting /\ [][NextSend]_vars

\* the rule of TestAnomalyRuleNoData with absence alerting without delay
InitNoData ==
    /\ Init
    /\ rule.builtBy = "NewAnomalyRule"
    /\ rule.HoldDuration = 0
    /\ rule.AlertOnAbsent
    /\ rule.AbsentFor = 0

\* the engine with a reader that takes the alerts and writes to its copies
NextSnap ==
    \/ Next
    \/ CurrentAlerts
    \/ ClientSetField
    \/ ClientWriteReceivers

SpecSnap == InitNoData /\ [][NextSnap]_vars

\* the engine with Eval's pass in its steps and other threads calling the
\* accessors at any moment
NextConc ==
    \/ NextEval
    \/ CurrentAlerts
    \/ HealthCall
    \/ StateCall

SpecConc == InitNoData /\ [][NextConc]_vars

\* the rule of TestAnomalyRuleNoData with labels and annotations whose
\* templates expand or fail
InitTemplates ==
    /\ InitRule({FALSE}, TemplateSets)
    /\ TestPlanner
    /\ rule.builtBy = "NewAnomalyRule"
    /\ rule.HoldDuration = 0
    /\ rule.AlertOnAbsent
    /\ rule.AbsentFor = 0

SpecTemplates == InitTemplates /\ [][Next]_vars

\* construction from any configuration, and the start of the first evaluation
\* of a rule that was constructed
InitConfig ==
    /\ rule \in [ builtBy : {"NewAnomalyRule"}, HoldDuration : {0},
                  AlertOnAbsent : {TRUE}, AbsentFor : {0}, SendAlways : {FALSE},
                  Labels : {NoTemplates}, Annotations : {NoTemplates},
                  cond : Conditions ]
    /\ holdDuration = NewAnomalyRule(rule).holdDuration
    /\ active = NewAnomalyRule(rule).active
    /\ health = NewAnomalyRule(rule).health
    /\ lastError = NewAnomalyRule(rule).lastError
    /\ lastTimestampWithDatapoints = NewAnomalyRule(rule).lastTimestampWithDatapoints
    /\ now = 1
    /\ pc = "idle"
    /\ ts = ZeroTime
    /\ prevState = StateInactive
    /\ res = <<>>
    /\ itemsToAdd = {}
    /\ ret = NoReturn
    /\ backend = NoBackend
    /\ retries = 0
    /\ retry = FALSE
    /\ prevRet = NoReturn
    /\ alerted = {}
    /\ scored = FALSE
    /\ removed = <<>>
    /\ mtx = "free"
    /\ committed = <<>>
    /\ preferredChannels = <<"slack">>
    /\ snap = NoSnapshot
    /\ lastRead = NoRead
    /\ dispatchedAt = ZeroTime
    /\ cfg \in PostableRules
    /\ built = NotBuilt
    /\ EmptyStore
    /\ TestPlanner

NextConfig ==
    \/ Construct
    \/ ValidateCall
    \/ EvalBuilt

SpecConfig == InitConfig /\ [][NextConfig]_vars

\* the evaluation times, windows and delays prepareQueryRange is tried with:
\* on and off a minute and a millisecond boundary, before and after the window
\* has passed since the epoch
Nows == {m * Minute + o : m \in {0, MaxMinute - 1, MaxMinute}, o \in {0, 1, Minute - 1}}
EvalWindows == {Minute + 1, 5 * Minute}
EvalDelays == {0, 1, 2 * Minute}
\* what common.MinAllowedStepInterval answers for the four windows
StepPlans ==
    { [w \in Windows |-> 30],
      [w \in Windows |-> IF w = "CurrentPeriodQuery" THEN 120 ELSE 600] }
\* no metric has rows in the time series table
NoRows == [err |-> FALSE, rows |-> [m \in MetricNames |-> {}]]

\* the rule of TestAnomalyRuleNoData with any window and delay, and a panel
\* type set or not
InitRange ==
    /\ InitRule({FALSE}, {NoTemplates})
    /\ rule.builtBy = "NewAnomalyRule"
    /\ rule.HoldDuration = 0
    /\ rule.AlertOnAbsent
    /\ rule.AbsentFor = 0
    /\ evalWindow \in EvalWindows
    /\ evalDelay \in EvalDelays
    /\ heap \in { [a \in {RuleAddr} |-> [TestCompositeQuery EXCEPT !.PanelType = pt]] :
                     pt \in {"", PanelTypeGraph} }
    /\ params = NoParams
    /\ rangeTs = ZeroTime
    /\ temporalityMap = TestTemporalityMap
    /\ fetched = <<>>
    /\ errs = <<>>
    /\ planned = 0

NextRange ==
    \/ \E t \in Nows, minStep \in StepPlans : PrepareQueryRange(t, minStep)
    \/ PopulateTemporality(NoRows)

SpecRange == InitRange /\ [][NextRange]_vars

\* the builder queries rules are resolved with: the test's, one with an
\* explicit temporality, two metrics, and a metric next to a logs query
BuilderQuerySets ==
    { [n \in {"A"} |-> TestBuilderQuery],
      [n \in {"A"} |-> [TestBuilderQuery EXCEPT !.Temporality = Cumulative]],
      [n \in {"A", "B"} |->
          IF n = "A" THEN TestBuilderQuery
          ELSE [TestBuilderQuery EXCEPT !.Key = "signoz_latency_count"]],
      [n \in {"A", "B"} |->
          IF n = "A" THEN TestBuilderQuery
          ELSE [TestBuilderQuery EXCEPT !.DataSource = DataSourceLogs]] }
\* the caches rules start with
TemporalityMaps ==
    { EmptyTemporalityMap, TestTemporalityMap,
      [TestTemporalityMap EXCEPT !["signoz_calls_total"] = {Cumulative, Delta}] }
\* the answers of the metadata source
FetchOutcomes ==
    [err : BOOLEAN, rows : [MetricNames -> {{}, {Cumulative}, {Cumulative, Delta}}]]
\* the evaluation time and the step answer of these rules
TestNow == MaxMinute * Minute
TestStepPlan == [w \in Windows |-> 30]

InitTemporality ==
    /\ InitRule({FALSE}, {NoTemplates})
    /\ rule.builtBy = "NewAnomalyRule"
    /\ rule.HoldDuration = 0
    /\ rule.AlertOnAbsent
    /\ rule.AbsentFor = 0
    /\ evalWindow = 5 * Minute
    /\ evalDelay = 0
    /\ heap \in { [a \in {RuleAddr} |-> [TestCompositeQuery EXCEPT !.BuilderQueries = bqs]] :
                     bqs \in BuilderQuerySets }
    /\ params = NoParams
    /\ rangeTs = ZeroTime
    /\ temporalityMap \in TemporalityMaps
    /\ fetched = <<>>
    /\ errs = <<>>
    /\ planned = 0

NextTemporality ==
    \/ PrepareQueryRange(TestNow, TestStepPlan)
    \/ \E f \in FetchOutcomes : PopulateTemporality(f)

SpecTemporality == InitTemporality /\ [][NextTemporality]_vars

------------------------------------------------------------------------------
(* The rule store: CreateRuleTx, EditRuleTx, DeleteRuleTx and their caller *)

MaxRules == 2

\* the ids of the stored rules and the rule strings
RuleIds == 1..MaxRules
RuleData == {"rule v1", "rule v2"}
\* what can go wrong in a call: nothing, r.Beginx(), or Prepare / Exec
StoreFailures == {"none", "begin", "exec"}

\* r.Beginx(): a transaction without writes on the rows as they are
Beginx == [state |-> "open", base |-> rulesTable, pending |-> <<>>]
\* result.LastInsertId() of an INSERT into tbl
LastInsertId(tbl) == IF DOMAIN tbl = {} THEN 1 ELSE MaxOf(DOMAIN tbl) + 1
\* the rows after the writes of a transaction are committed
Committed(tbl, pending) ==
    [id \in DOMAIN tbl \cup DOMAIN pending |->
        IF id \in DOMAIN pending THEN pending[id] ELSE tbl[id]]
\* what a call returns: the id, whether the tx is non-nil, the error
StoreReturn(op, id, hasTx, err) ==
    [op |-> op, id |-> id, tx |-> hasTx, err |-> err, rules |-> <<>>]

\* CreateRuleTx: Beginx, then tx.Prepare and stmt.Exec of the INSERT inside
\* the transaction
CreateRuleTx(data, fail) ==
    /\ tx.state = "none"
    /\ LastInsertId(rulesTable) <= MaxRules
    /\ CASE fail = "begin" ->
               /\ tx' = NoTx
               /\ dbRet' = StoreReturn("CreateRuleTx", 0, FALSE,
                                       "failed to begin transaction")
          [] fail = "exec" ->
               /\ tx' = Beginx
               /\ dbRet' = StoreReturn("CreateRuleTx", 0, TRUE,
                                       "failed to execute statement")
          [] OTHER ->
               /\ tx' = [Beginx EXCEPT
                           !.pending = [id \in {LastInsertId(rulesTable)} |-> data]]
               /\ dbRet' = StoreReturn("CreateRuleTx", LastInsertId(rulesTable),
                                       TRUE, NoError)
    /\ UNCHANGED rulesTable
    /\ UNCHANGED <<engineVars, rangeVars>>

\* EditRuleTx: strconv.Atoi(id), Beginx, then r.Prepare and stmt.Exec of the
\* UPDATE on the database handle, outside the transaction
EditRuleTx(data, id, idOk, fail) ==
    /\ tx.state = "none"
    /\ IF ~idOk
       THEN /\ dbRet' = StoreReturn("EditRuleTx", 0, FALSE, "invalid id parameter")
            /\ UNCHANGED <<rulesTable, tx>>
       ELSE CASE fail = "begin" ->
                   /\ tx' = NoTx
                   /\ dbRet' = StoreReturn("EditRuleTx", id, FALSE,
                                           "failed to begin transaction")
                   /\ UNCHANGED rulesTable
              [] fail = "exec" ->
                   /\ tx' = Beginx
                   /\ dbRet' = StoreReturn("EditRuleTx", id, TRUE,
                                           "failed to execute statement")
                   /\ UNCHANGED rulesTable
              [] OTHER ->
                   /\ tx' = Beginx
                   /\ rulesTable' = [i \in DOMAIN rulesTable |->
                                        IF i = id THEN data ELSE rulesTable[i]]
                   /\ dbRet' = StoreReturn("EditRuleTx", id, TRUE, NoError)
    /\ UNCHANGED <<engineVars, rangeVars>>

\* DeleteRuleTx: strconv.Atoi(id), Beginx, then r.Prepare and stmt.Exec of the
\* DELETE on the database handle, outside the transaction
DeleteRuleTx(id, idOk, fail) ==
    /\ tx.state = "none"
    /\ IF ~idOk
       THEN /\ dbRet' = StoreReturn("DeleteRuleTx", 0, FALSE, "invalid id parameter")
            /\ UNCHANGED <<rulesTable, tx>>
       ELSE CASE fail = "begin" ->
                   /\ tx' = NoTx
                   /\ dbRet' = StoreReturn("DeleteRuleTx", id, FALSE,
                                           "failed to begin transaction")
                   /\ UNCHANGED rulesTable
              [] fail = "exec" ->
                   /\ tx' = Beginx
                   /\ dbRet' = StoreReturn("DeleteRuleTx", id, TRUE,
                                           "failed to execute statement")
                   /\ UNCHANGED rulesTable
              [] OTHER ->
                   /\ tx' = Beginx
                   /\ rulesTable' = [i \in DOMAIN rulesTable \ {id} |-> rulesTable[i]]
                   /\ dbRet' = StoreReturn("DeleteRuleTx", id, TRUE, NoError)
    /\ UNCHANGED <<engineVars, rangeVars>>

\* the caller commits the transaction it was handed
Commit ==
    /\ tx.state = "open"
    /\ rulesTable' = Committed(rulesTable, tx.pending)
    /\ tx' = NoTx
    /\ dbRet' = StoreReturn("Commit", 0, FALSE, NoError)
    /\ UNCHANGED <<engineVars, rangeVars>>

\* the caller rolls it back
Rollback ==
    /\ tx.state = "open"
    /\ tx' = NoTx
    /\ dbRet' = StoreReturn("Rollback", 0, FALSE, NoError)
    /\ UNCHANGED rulesTable
    /\ UNCHANGED <<engineVars, rangeVars>>

\* GetStoredRules on another connection: the committed rows, or the error of
\* r.Select
GetStoredRules(ok) ==
    /\ dbRet' = IF ok
                THEN [StoreReturn("GetStoredRules", 0, FALSE, NoError)
                        EXCEPT !.rules = rulesTable]
                ELSE StoreReturn("GetStoredRules", 0, FALSE, "failed to select rules")
    /\ UNCHANGED <<rulesTable, tx>>
    /\ UNCHANGED <<engineVars, rangeVars>>

NextStore ==
    \/ \E data \in RuleData, fail \in StoreFailures : CreateRuleTx(data, fail)
    \/ \E data \in RuleData, id \in RuleIds, idOk \in BOOLEAN, fail \in StoreFailures :
          EditRuleTx(data, id, idOk, fail)
    \/ \E id \in RuleIds, idOk \in BOOLEAN, fail \in StoreFailures :
          DeleteRuleTx(id, idOk, fail)
    \/ Commit
    \/ Rollback
    \/ \E ok \in BOOLEAN : GetStoredRules(ok)

SpecStore == InitNoData /\ [][NextStore]_vars

------------------------------------------------------------------------------
(* A scheduler that dispatches after every successful Eval *)

\* the call is over; if it succeeded, the scheduler has called SendAlerts with
\* its ts before the next tick
EvalReturnSent ==
    /\ ret.err = NoError => dispatchedAt = ts
    /\ EvalReturn

NextNotify ==
    \/ Tick
    \/ EvalCall
    \/ \E b \in Backends, late \in BOOLEAN : BuildAndRunQuery(b, late)
    \/ EvalTransition
    \/ \E ok \in BOOLEAN : EvalFinish(ok)
    \/ EvalReturnSent
    \/ \E resendDelay \in {0, MaxResendDelay}, interval \in {MaxInterval} :
          Dispatch(resendDelay, interval)

SpecNotify == InitAlerting /\ [][NextNotify]_vars

------------------------------------------------------------------------------
(* The failing return in its steps *)

\* buildAndRunQuery fails: r.SetHealth(HealthBad) under r.mtx, then the return
\* of the error to Eval
QueryFails(b) ==
    /\ pc = "query"
    /\ mtx = "free"
    /\ b.fail # "none"
    /\ backend' = b
    /\ retry' = (retry /\ b = backend)
    /\ health' = HealthBad
    /\ pc' = "failed"
    /\ UNCHANGED <<rule, holdDuration, now, active, lastError,
                   lastTimestampWithDatapoints, ts, prevState, res, itemsToAdd,
                   ret, retries, prevRet, alerted, scored, removed, mtx, committed>>
    /\ UNCHANGED envVars
    /\ UNCHANGED planVars

\* Eval's if err != nil: r.SetHealth(HealthBad), r.SetLastError(err), return
EvalFail ==
    /\ pc = "failed"
    /\ mtx = "free"
    /\ EvalAbort(BackendError(backend))
    /\ UNCHANGED <<rule, holdDuration, now, lastTimestampWithDatapoints, ts,
                   prevState, res, itemsToAdd, backend, retries, retry, prevRet,
                   alerted, scored, removed, mtx, committed>>
    /\ UNCHANGED envVars
    /\ UNCHANGED planVars

\* the engine with the failing return in its steps, and a reader of Health and
\* LastError
NextHealth ==
    \/ Tick
    \/ EvalCall
    \/ \E b \in {x \in Backends : x.fail = "none"}, late \in BOOLEAN :
          BuildAndRunQuery(b, late)
    \/ \E b \in Backends : QueryFails(b)
    \/ EvalFail
    \/ EvalTransition
    \/ \E ok \in BOOLEAN : EvalFinish(ok)
    \/ EvalReturn
    \/ HealthCall

SpecHealth == Init /\ [][NextHealth]_vars

------------------------------------------------------------------------------
(* Ticks that follow each other within one unit of time *)

\* the scheduler's ticks come in quick succession up to this time
MaxBurst == 1

\* the call is over and the scheduler's next tick comes within the same unit
\* of time, the resolution of the lastSeen label
EvalReturnSoon ==
    /\ pc = "done"
    /\ now <= MaxBurst
    /\ pc' = "idle"
    /\ ts' = ZeroTime
    /\ prevState' = StateInactive
    /\ res' = <<>>
    /\ itemsToAdd' = {}
    /\ ret' = NoReturn
    /\ backend' = NoBackend
    /\ retries' = 0
    /\ retry' = FALSE
    /\ prevRet' = NoReturn
    /\ alerted' = {}
    /\ scored' = FALSE
    /\ removed' = <<>>
    /\ UNCHANGED <<rule, holdDuration, now, active, health, lastError,
                   lastTimestampWithDatapoints, mtx, committed>>
    /\ UNCHANGED envVars
    /\ UNCHANGED planVars

\* a result with data, a result without, and a failure
FewBackends ==
    { b \in Backends :
        \/ b.fail = "query"
        \/ b.fail = "none" /\ b.weekPrev.present
           /\ b.cur \in {Result(<<>>), Result([l \in {"a"} |-> <<1>>])} }

\* rules with absence alerting without delay, without opts.SendAlways
InitRematch ==
    /\ InitAlerting
    /\ ~rule.SendAlways

NextRematch ==
    \/ Tick
    \/ EvalCall
    \/ \E b \in FewBackends, late \in BOOLEAN : BuildAndRunQuery(b, late)
    \/ EvalLock
    \/ EvalMerge
    \/ EvalAdvance
    \/ \E ok \in BOOLEAN : EvalFinish(ok)
    \/ EvalReturn
    \/ EvalReturnSoon
    \/ \E resendDelay \in {0, MaxResendDelay}, interval \in {MaxInterval} :
          Dispatch(resendDelay, interval)

SpecRematch == InitRematch /\ [][NextRematch]_vars

------------------------------------------------------------------------------
(* shouldAlert over every match type and compare operator *)

MaxPoints == 2

MatchTypes == {AtleastOnce, AllTheTimes, OnAverage, InTotal}
FourOps == {ValueIsAbove, ValueIsBelow, ValueIsEq, ValueIsNotEq}
\* the compare operators a rule can carry
CompareOps == FourOps \cup {CompareOpNone}
Targets == {-1, 0, 1}
\* the conditions of the scoring rules
ScoreConditions ==
    [CompareOp : CompareOps, MatchType : MatchTypes, Target : Targets]

\* the values of the points of a current series
ScoreValues == {0, 1, 3, ValueNaN, ValuePosInf, ValueNegInf}
\* the point lists of a current series
ScorePoints == UNION {[1..n -> ScoreValues] : n \in 0..MaxPoints}

\* baselines with a standard deviation of zero, and with a week series that
\* has no points
FlatWeek == Result([l \in SeriesLabels |-> <<1, 1>>])
EmptyWeek == Result([l \in SeriesLabels |-> <<>>])

\* answers with one current series and all three baselines
ScoreBackends ==
    { [fail |-> "none", cur |-> Result([l \in {"a"} |-> pts]), prev |-> FullPrev,
       week |-> w, weekPrev |-> FullWeekPrev] :
         pts \in ScorePoints, w \in {FullWeek, FlatWeek, EmptyWeek} }

\* rules that score every series: no absence alerting, any condition
InitScore ==
    /\ InitCond({FALSE}, {NoTemplates}, ScoreConditions)
    /\ TestPlanner
    /\ rule.builtBy = "NewAnomalyRule"
    /\ rule.HoldDuration = 0
    /\ ~rule.AlertOnAbsent
    /\ rule.AbsentFor = 0

NextScore ==
    \/ Tick
    \/ EvalCall
    \/ \E b \in ScoreBackends : BuildAndRunQuery(b, FALSE)
    \/ EvalTransition
    \/ \E ok \in BOOLEAN : EvalFinish(ok)
    \/ EvalReturn

SpecScore == InitScore /\ [][NextScore]_vars

------------------------------------------------------------------------------
(* Properties *)

RecordsOf(items, fp) == {i \in items : i.alert = fp}

\* the step in which buildAndRunQuery answers
QueryStep == pc = "query" /\ pc' # "query"

\* the step of the transition pass of a tick without duplicate fingerprints
TransitionStep == pc = "transition" /\ pc' = "history"

\* C1: when a backend step of the tick fails (temporality lookup, a window
\* query, post-processing), Eval returns that error, health is bad, lastError
\* is not nil and the active table is what it was before.
C1_BackendFailureAborts ==
    [][ (QueryStep /\ backend'.fail # "none")
        => /\ pc' = "done"
           /\ ret'.err # NoError
           /\ health' = HealthBad
           /\ lastError' # NoError
           /\ active' = active ]_vars

\* a tick failed in the backend while the table held an alert
C1_Witness ==
    /\ pc = "done"
    /\ backend.fail = "query"
    /\ ret.err = ErrQuerying
    /\ health = HealthBad
    /\ active # <<>>

\* C3: in a successful tick a matched pending alert fires (FiredAt = ts, one
\* firing or no_data record) iff ts - ActiveAt >= holdDuration; short of the
\* hold duration it stays pending and gets no record.
C3_FiresIffHeld ==
    [][ TransitionStep =>
        \A fp \in ResultFPs(res) :
            LET carried == fp \in DOMAIN active /\ active[fp].State # StateInactive
                activeAt == IF carried THEN active[fp].ActiveAt ELSE ts
                pending == ~carried \/ active[fp].State = StatePending
            IN  pending =>
                IF ts - activeAt >= holdDuration
                THEN /\ active'[fp].State = StateFiring
                     /\ active'[fp].FiredAt = ts
                     /\ Cardinality(RecordsOf(itemsToAdd', fp)) = 1
                     /\ \A i \in RecordsOf(itemsToAdd', fp) :
                            i.State \in {"firing", "no_data"}
                ELSE /\ active'[fp].State = StatePending
                     /\ active'[fp].FiredAt = ZeroTime
                     /\ RecordsOf(itemsToAdd', fp) = {} ]_vars

\* a pending alert carried over from an earlier tick fires at the tick at which
\* a positive hold duration is exactly reached
C3_Witness ==
    /\ pc = "history"
    /\ holdDuration > 0
    /\ \E fp \in ResultFPs(res) :
          /\ active[fp].State = StateFiring
          /\ active[fp].FiredAt = ts
          /\ ts - active[fp].ActiveAt = holdDuration

\* C4: a rule built by NewAnomalyRule applies its configured hold duration: no
\* alert fires before the condition has persisted for that long.
C4_ConfiguredHoldApplies ==
    rule.builtBy = "NewAnomalyRule" =>
        \A fp \in DOMAIN active :
            active[fp].State = StateFiring =>
                active[fp].FiredAt - active[fp].ActiveAt >= rule.HoldDuration

\* C5: a pending alert whose fingerprint is not matched at the next tick is
\* removed from the table and no history record is emitted for it.
C5_PendingDroppedSilently ==
    [][ TransitionStep =>
        \A fp \in DOMAIN active :
            (active[fp].State = StatePending /\ fp \notin ResultFPs(res))
            => /\ fp \notin DOMAIN active'
               /\ RecordsOf(itemsToAdd', fp) = {} ]_vars

\* C6: an unmatched inactive alert is removed from the table at a tick iff
\* ts - ResolvedAt > resolvedRetention; otherwise it stays, still inactive.
C6_PurgedAfterRetention ==
    [][ TransitionStep =>
        \A fp \in DOMAIN active :
            (active[fp].State = StateInactive /\ fp \notin ResultFPs(res))
            => /\ (fp \notin DOMAIN active')
                    <=> (ts - active[fp].ResolvedAt > resolvedRetention)
               /\ fp \in DOMAIN active' => active'[fp] = active[fp] ]_vars

\* a tick purged a resolved alert while it kept another one that was resolved
\* exactly resolvedRetention ago
C6_Witness ==
    /\ pc = "history"
    /\ \E fp \in DOMAIN removed :
          /\ removed[fp].State = StateInactive
          /\ ts - removed[fp].ResolvedAt = resolvedRetention + 1
    /\ \E fp \in DOMAIN active :
          /\ active[fp].State = StateInactive
          /\ ts - active[fp].ResolvedAt = resolvedRetention

\* the fingerprint of the alert of a scored series: its labels and the rule's
SeriesFingerprint(l) ==
    Fingerprint([Metric |-> {<<"series", l>>}, IsMissing |-> FALSE])

\* the series has a counterpart in each of the three baseline windows
HasCounterparts(b, l) ==
    /\ getMatchingSeries(b.prev, l).found
    /\ getMatchingSeries(b.week, l).found
    /\ getMatchingSeries(b.weekPrev, l).found

\* C7: when shouldAlert returned true for a current series that has a
\* counterpart in each baseline window, the active table holds an alert for
\* that series' fingerprint after the tick.
C7_AlertingSeriesIsActive ==
    (pc = "done" /\ ret.err = NoError) =>
        \A l \in alerted :
            HasCounterparts(backend, l) => SeriesFingerprint(l) \in DOMAIN active

\* C8: with AlertOnAbsent, a tick in which no datapoint has been observed for
\* at least AbsentFor yields exactly one missing-data sample and does not
\* invoke shouldAlert.
C8_AbsentShortCircuits ==
    [][ ( /\ QueryStep
          /\ backend'.fail = "none"
          /\ rule.AlertOnAbsent
          /\ ~HasDatapoints(backend'.cur)
          /\ now - lastTimestampWithDatapoints >= rule.AbsentFor )
        => /\ pc' = "transition"
           /\ Len(res') = 1
           /\ res'[1].IsMissing
           /\ ~scored' ]_vars

\* the tick of the no-data scenario: absence alerting with AbsentFor unset, a
\* successful query without rows, Eval has returned
NoDataTick ==
    /\ pc = "done"
    /\ backend.fail = "none"
    /\ ~HasDatapoints(backend.cur)
    /\ rule.AlertOnAbsent
    /\ rule.AbsentFor = 0
    /\ rule.cond = [CompareOp |-> ValueIsEq, MatchType |-> AtleastOnce, Target |-> 0]

\* some entry of the table is a live missing-data alert
HasMissingAlert(tbl) ==
    \E fp \in DOMAIN tbl : tbl[fp].Missing /\ tbl[fp].State # StateInactive

\* C9 (as stated): in the no-data scenario Eval returns a nil error and the
\* count 0, and the active table contains a missing-data alert.
C9_NoDataReturnsZero ==
    NoDataTick =>
        /\ ret.err = NoError
        /\ ret.count = 0
        /\ HasMissingAlert(active)

\* C9 (amended): in the no-data scenario Eval returns a nil error and the
\* number of entries of the active table, which is at least 1, and the table
\* contains a missing-data alert.
C9_NoDataReturnsTableSize ==
    NoDataTick =>
        /\ ret.err = NoError
        /\ ret.count = Cardinality(DOMAIN active)
        /\ ret.count >= 1
        /\ HasMissingAlert(active)

\* the no-data scenario on a table that already holds a resolved alert
C9_Witness ==
    /\ NoDataTick
    /\ ret.count = 2
    /\ HasMissingAlert(active)
    /\ \E fp \in DOMAIN active : active[fp].State = StateInactive

\* C10: a second call of Eval with the same ts and the same backend results
\* leaves the active table as the first call left it, emits no history record
\* and returns what the first call returned.
C10_RetryIsIdempotent ==
    [][ /\ (retry /\ TransitionStep) => (active' = active /\ itemsToAdd' = {})
        /\ (retry' /\ pc # "done" /\ pc' = "done") => ret' = prevRet ]_vars

\* Eval has returned without error
EvalSucceeded == pc = "done" /\ ret.err = NoError

\* the table holds an alert that is resolved and only retained
HasRetained(tbl) == \E fp \in DOMAIN tbl : tbl[fp].ResolvedAt # ZeroTime

\* C11 (as stated): on success Eval returns the number of alerts of the table
\* that are not resolved, the set ActiveAlerts reports; retained resolved
\* alerts are not counted.
C11_ReturnsUnresolvedCount ==
    EvalSucceeded => ret.count = Cardinality(ActiveAlerts(active))

\* C11 (amended): on success Eval returns the number of entries of the table,
\* the resolved alerts that are only retained included; it is never less than
\* the number of alerts ActiveAlerts reports.
C11_ReturnsEntryCount ==
    EvalSucceeded =>
        /\ ret.count = Cardinality(DOMAIN active)
        /\ ret.count >= Cardinality(ActiveAlerts(active))

\* a successful tick whose table retains a resolved alert next to a live one
C11_Witness ==
    /\ EvalSucceeded
    /\ HasRetained(active)
    /\ ActiveAlerts(active) # {}
    /\ ret.count > Cardinality(ActiveAlerts(active))

\* last + resendDelay is before t (the zero time plus any delay is)
Elapsed(last, resendDelay, t) == last = ZeroTime \/ last + resendDelay < t

\* the resend policy: not pending, and resolved after the last send or the
\* resend delay elapsed since it
Due(a, t, resendDelay) ==
    /\ a.State # StatePending
    /\ (a.ResolvedAt > a.LastSentAt \/ Elapsed(a.LastSentAt, resendDelay, t))

\* the alerts the step hands to the notify callback
Sent == DOMAIN snap'.alerts

\* C12 (as stated): SendAlerts passes an alert of the table to the notify
\* callback if and only if the alert is not pending and either was resolved
\* after its last send or its last send is more than resendDelay before now;
\* a pending alert is never passed.
C12_SentIffDue ==
    [][ \A resendDelay \in {0, MaxResendDelay}, interval \in {MaxInterval} :
          Dispatch(resendDelay, interval) =>
              /\ Sent = {fp \in DOMAIN active : Due(active[fp], now, resendDelay)}
              /\ \A fp \in Sent : active[fp].State # StatePending ]_vars

\* C12 (amended): for a rule without opts.SendAlways, SendAlerts passes an
\* alert if and only if it is due by the resend policy, so never a pending one;
\* for a rule with opts.SendAlways it passes every alert of the table.
C12_SentIffDueOrAlways ==
    [][ \A resendDelay \in {0, MaxResendDelay}, interval \in {MaxInterval} :
          Dispatch(resendDelay, interval) =>
              IF rule.SendAlways
              THEN Sent = DOMAIN active
              ELSE /\ Sent = {fp \in DOMAIN active : Due(active[fp], now, resendDelay)}
                   /\ \A fp \in Sent : active[fp].State # StatePending ]_vars

\* a dispatch of a rule without SendAlways has just passed an alert that is
\* due and held back a pending one
C12_Witness ==
    /\ pc = "done"
    /\ ~rule.SendAlways
    /\ snap.by = "SendAlerts"
    /\ \A fp \in DOMAIN snap.alerts : fp \in DOMAIN active /\ active[fp].LastSentAt = now
    /\ \E fp \in DOMAIN snap.alerts : active[fp].State # StatePending
    /\ \E fp \in DOMAIN active :
          /\ active[fp].State = StatePending
          /\ fp \notin DOMAIN snap.alerts

\* the larger of the two durations
Longer(resendDelay, interval) ==
    IF resendDelay >= interval THEN resendDelay ELSE interval

\* C13: every alert SendAlerts sends at now gets LastSentAt = now and
\* ValidUntil = now + 4 * max(resendDelay, interval); every other alert keeps
\* both; no alert's State, ActiveAt, FiredAt or ResolvedAt changes and the
\* table keeps its members.
C13_SendUpdatesOnlySendTimes ==
    [][ \A resendDelay \in {0, MaxResendDelay}, interval \in {MaxInterval} :
          Dispatch(resendDelay, interval) =>
              /\ DOMAIN active' = DOMAIN active
              /\ \A fp \in DOMAIN active :
                    /\ active'[fp].State = active[fp].State
                    /\ active'[fp].ActiveAt = active[fp].ActiveAt
                    /\ active'[fp].FiredAt = active[fp].FiredAt
                    /\ active'[fp].ResolvedAt = active[fp].ResolvedAt
                    /\ IF fp \in Sent
                       THEN /\ active'[fp].LastSentAt = now
                            /\ active'[fp].ValidUntil =
                                   now + 4 * Longer(resendDelay, interval)
                       ELSE /\ active'[fp].LastSentAt = active[fp].LastSentAt
                            /\ active'[fp].ValidUntil = active[fp].ValidUntil ]_vars

\* a dispatch has just sent one alert, valid for four resend delays, and left
\* alone another that it had sent in an earlier tick
C13_Witness ==
    /\ pc = "done"
    /\ snap.by = "SendAlerts"
    /\ \E fp \in DOMAIN snap.alerts :
          /\ fp \in DOMAIN active
          /\ active[fp].LastSentAt = now
          /\ active[fp].ValidUntil = now + 4 * MaxResendDelay
    /\ \E fp \in DOMAIN active \ DOMAIN snap.alerts :
          /\ active[fp].LastSentAt # ZeroTime
          /\ active[fp].LastSentAt < now
          /\ active[fp].ValidUntil < now + 4 * MaxResendDelay

\* what a reader of alerts sees: every field, the Receivers slice read through
\* to the elements of its backing array
Seen(alerts, chans) ==
    [fp \in DOMAIN alerts |-> [alerts[fp] EXCEPT !.Receivers = chans]]

\* a step of the holder of the copies
ClientStep == ClientSetField \/ ClientWriteReceivers

\* C14: the alerts returned by currentAlerts/ActiveAlerts are snapshot
\* copies: a change the holder makes to a returned alert does not change the
\* active table, and a step of a later tick does not change what was returned.
C14_SnapshotsAreIndependent ==
    [][ /\ ClientStep =>
              Seen(active', preferredChannels') = Seen(active, preferredChannels)
        /\ (snap.by # "none" /\ pc' # pc) =>
              Seen(snap'.alerts, preferredChannels') = Seen(snap.alerts, preferredChannels)
      ]_vars

\* C15: every access of another thread to the active table or to the health
\* fields, through State, Health, LastError, currentAlerts, ActiveAlerts or
\* SendAlerts, happens with r.mtx held by that thread, so none happens while
\* Eval holds r.mtx and mutates the table.
C15_AccessUnderMutex ==
    lastRead.op # "none" => ~lastRead.evalHeld

\* a call of currentAlerts returns
SnapshotStep == snap' # snap /\ snap'.by = "currentAlerts"

\* Eval is inside its transition pass: the first loop has run, the second
\* has not
MidPass == pc = "advance" /\ mtx = "eval"

\* C16: a reader that calls currentAlerts while an Eval is running gets the
\* table as it was before the tick's transition pass or as it is after the
\* whole pass, never a table to which only a part of the pass has been
\* applied; whenever r.mtx is free the table is in one of these two forms.
C16_ReadersSeeWholePasses ==
    /\ [](mtx = "free" => active = committed)
    /\ [][SnapshotStep => (mtx = "free" /\ snap'.alerts = committed)]_vars

\* Eval is in the middle of a pass that has changed the table, and the last
\* reader's copies are the table of before the pass
C16_Witness ==
    /\ MidPass
    /\ active # committed
    /\ DOMAIN committed # {}
    /\ lastRead.op = "currentAlerts"
    /\ snap.by = "currentAlerts"
    /\ snap.alerts = committed

\* Eval is about to call the backend: the window queries of buildAndRunQuery,
\* or AddRuleStateHistory with the records of the tick
AwaitingIO == pc = "query" \/ (pc = "history" /\ itemsToAdd # {})

\* C17: Eval does not hold r.mtx while it waits on I/O, neither during the
\* backend queries nor during AddRuleStateHistory, so no reader waits for the
\* lock for as long as a history write takes.
C17_NoLockDuringIO ==
    AwaitingIO => mtx = "free"

\* the defects of a non-nil rule condition, each with the checks before it
\* passed
NilQuery(rc) == ~rc.CompositeQuery.present
BadQuery(rc) == rc.CompositeQuery.present /\ rc.CompositeQuery.valid = "other"
IsBuilder(rc) ==
    /\ rc.CompositeQuery.present
    /\ rc.CompositeQuery.valid # "other"
    /\ rc.CompositeQuery.QueryType = QueryTypeBuilder
IsPromQL(rc) ==
    /\ rc.CompositeQuery.present
    /\ rc.CompositeQuery.valid # "other"
    /\ rc.CompositeQuery.QueryType = QueryTypePromQL
NilTarget(rc) == IsBuilder(rc) /\ ~rc.hasTarget
NoCompareOp(rc) == IsBuilder(rc) /\ rc.hasTarget /\ rc.CompareOp = ""
NoPromQuery(rc) == IsPromQL(rc) /\ rc.CompositeQuery.PromQueries = 0

Defective(rc) ==
    NilQuery(rc) \/ BadQuery(rc) \/ NilTarget(rc) \/ NoCompareOp(rc) \/ NoPromQuery(rc)

\* C18: Validate returns ErrNilCompositeQuery for a nil composite query,
\* ErrNilTarget for a builder condition with nil Target, ErrInvalidCompareOp
\* for a builder condition without a compare operator, ErrNoPromQLQuery for a
\* PromQL condition without queries, and nil only for a condition without
\* defect; NewAnomalyRule returns an error and no rule when the condition is
\* nil or defective, so only rules with a sound condition are evaluated.
C18_ConfigErrorsRejected ==
    LET rc == cfg.RuleCondition
    IN  /\ built.validate # "uncalled" =>
              /\ NilQuery(rc) => built.validate = ErrNilCompositeQuery
              /\ NilTarget(rc) => built.validate = ErrNilTarget
              /\ NoCompareOp(rc) => built.validate = ErrInvalidCompareOp
              /\ NoPromQuery(rc) => built.validate = ErrNoPromQLQuery
              /\ (built.validate = NoError) = ~Defective(rc)
        /\ built.done =>
              /\ built.rule = (built.err = NoError)
              /\ (~rc.present \/ Defective(rc)) => ~built.rule
        /\ pc # "idle" => (built.rule /\ rc.present /\ ~Defective(rc))

\* a PromQL condition without queries has been validated and refused by
\* NewAnomalyRule
C18_Witness ==
    /\ NoPromQuery(cfg.RuleCondition)
    /\ built.validate = ErrNoPromQLQuery
    /\ built.done
    /\ built.err = ErrInvalidRuleCondition
    /\ ~built.rule

\* the step of the first loop
MergeStep == pc = "merge" /\ pc' = "advance"

\* the table holds a live alert for the fingerprint
Carried(tbl, fp) == fp \in DOMAIN tbl /\ tbl[fp].State # StateInactive

\* C19: in a successful tick, for each matched fingerprint: an alert the table
\* holds for it that is not inactive keeps its State, ActiveAt, FiredAt,
\* ResolvedAt and LastSentAt; otherwise (no entry, or an inactive one) the
\* entry becomes a new pending alert with ActiveAt = ts.
C19_MatchedIsKeptOrInserted ==
    [][ MergeStep =>
          \A fp \in ResultFPs(res) :
              /\ fp \in DOMAIN active'
              /\ IF Carried(active, fp)
                 THEN /\ active'[fp].State = active[fp].State
                      /\ active'[fp].ActiveAt = active[fp].ActiveAt
                      /\ active'[fp].FiredAt = active[fp].FiredAt
                      /\ active'[fp].ResolvedAt = active[fp].ResolvedAt
                      /\ active'[fp].LastSentAt = active[fp].LastSentAt
                 ELSE /\ active'[fp].State = StatePending
                      /\ active'[fp].ActiveAt = ts
                      /\ active'[fp].FiredAt = ZeroTime
                      /\ active'[fp].ResolvedAt = ZeroTime
                      /\ active'[fp].LastSentAt = ZeroTime ]_vars

\* the first loop has just run on a sample whose alert was firing and had
\* been sent in an earlier tick
C19_Witness ==
    /\ pc = "advance"
    /\ \E fp \in ResultFPs(res) :
          /\ Carried(committed, fp)
          /\ active[fp].State = StateFiring
          /\ active[fp].ActiveAt < ts
          /\ active[fp].LastSentAt # ZeroTime

\* the alerts of the table the tick's result does not match
Unmatched == DOMAIN active \ ResultFPs(res)

\* C20: in a successful tick a firing alert whose fingerprint is not matched
\* becomes inactive with ResolvedAt = ts, stays in the table and gets exactly
\* one history record, with state "normal"; an unmatched alert that is
\* already inactive gets no record and keeps its ResolvedAt.
C20_UnmatchedFiringResolves ==
    [][ TransitionStep =>
          \A fp \in Unmatched :
              /\ active[fp].State = StateFiring =>
                    /\ fp \in DOMAIN active'
                    /\ active'[fp].State = StateInactive
                    /\ active'[fp].ResolvedAt = ts
                    /\ Cardinality(RecordsOf(itemsToAdd', fp)) = 1
                    /\ \A i \in RecordsOf(itemsToAdd', fp) : i.State = "normal"
              /\ active[fp].State = StateInactive =>
                    /\ RecordsOf(itemsToAdd', fp) = {}
                    /\ fp \in DOMAIN active' =>
                          /\ active'[fp].State = StateInactive
                          /\ active'[fp].ResolvedAt = active[fp].ResolvedAt ]_vars

\* the pass has just resolved an alert that was firing and recorded it, next
\* to a retained alert that was resolved in an earlier tick
C20_Witness ==
    /\ pc = "history"
    /\ \E fp \in DOMAIN active \ ResultFPs(res) :
          /\ active[fp].State = StateInactive
          /\ active[fp].FiredAt # ZeroTime
          /\ active[fp].ResolvedAt = ts
          /\ \E i \in itemsToAdd : i.alert = fp /\ i.State = "normal"
    /\ \E fp \in DOMAIN active \ ResultFPs(res) :
          /\ active[fp].State = StateInactive
          /\ active[fp].ResolvedAt < ts
          /\ RecordsOf(itemsToAdd, fp) = {}

\* firing if some alert fires, else pending if some alert is pending, else
\* inactive
Aggregate(tbl) ==
    IF \E fp \in DOMAIN tbl : tbl[fp].State = StateFiring THEN StateFiring
    ELSE IF \E fp \in DOMAIN tbl : tbl[fp].State = StatePending THEN StatePending
    ELSE StateInactive

\* the label of an aggregate state the rule has changed to
AggregateLabel(st) ==
    IF st = StateFiring THEN "firing"
    ELSE IF st = StatePending THEN "pending"
    ELSE "normal"

\* the step that ends a successful tick
FinishStep == pc = "history" /\ pc' = "done"

\* C21: the rule's state is the maximum state of the alerts of the table
\* (inactive for an empty table); the records of a successful tick all carry
\* OverallStateChanged = true and the label of the new state if the state
\* after the tick differs from the state before it, and all carry
\* OverallStateChanged = false otherwise.
C21_RecordsCarryAggregateChange ==
    /\ [](pc \in {"query", "transition"} => prevState = Aggregate(active))
    /\ [][ FinishStep =>
             /\ State(active) = Aggregate(active)
             /\ {i.alert : i \in itemsToAdd'} = {i.alert : i \in itemsToAdd}
             /\ \A i \in itemsToAdd' :
                   /\ i.OverallStateChanged = (Aggregate(active) # prevState)
                   /\ i.OverallStateChanged =>
                         i.OverallState = AggregateLabel(Aggregate(active)) ]_vars

\* a tick has resolved one alert and fired another: two records, and the
\* rule's state is firing as before
C21_Witness ==
    /\ pc = "done"
    /\ ret.err = NoError
    /\ Cardinality(itemsToAdd) >= 2
    /\ prevState = StateFiring
    /\ Aggregate(active) = StateFiring
    /\ \A i \in itemsToAdd : ~i.OverallStateChanged

\* the values of the sample's labels of that name
LabelValues(smpl, name) == {kv[2] : kv \in {l \in smpl.Metric : l[1] = name}}

\* the synthetic missing-data results of the tick
MissingResults == {res[i] : i \in {j \in 1..Len(res) : res[j].IsMissing}}

\* C22 (as stated): every synthetic missing-data result of a tick carries a
\* lastSeen label, also on a rule that has never observed a datapoint.
C22_MissingCarriesLastSeen ==
    \A smpl \in MissingResults : LabelValues(smpl, "lastSeen") # {}

\* C22 (amended): a synthetic missing-data result carries a lastSeen label,
\* whose value is the time of the last tick with datapoints, if and only if
\* the rule has observed a datapoint; on a rule that never has, the result
\* has no label at all.
C22_LastSeenIffObserved ==
    pc = "transition" =>
        \A smpl \in MissingResults :
            IF lastTimestampWithDatapoints = ZeroTime
            THEN smpl.Metric = {}
            ELSE LabelValues(smpl, "lastSeen") = {lastTimestampWithDatapoints}

\* a tick of a rule that observed datapoints in an earlier tick has produced
\* the missing-data result, labelled with the time of that tick
C22_Witness ==
    /\ pc = "transition"
    /\ MissingResults # {}
    /\ lastTimestampWithDatapoints # ZeroTime
    /\ lastTimestampWithDatapoints < now
    /\ \A smpl \in MissingResults :
          LabelValues(smpl, "lastSeen") = {lastTimestampWithDatapoints}

\* the transition the record reports is in the table
Applied(i) ==
    IF i.State = "normal"
    THEN \/ i.alert \notin DOMAIN active
         \/ /\ active[i.alert].State = StateInactive
            /\ active[i.alert].ResolvedAt = ts
    ELSE /\ i.alert \in DOMAIN active
         /\ active[i.alert].State = StateFiring
         /\ active[i.alert].FiredAt = ts

\* the step writes r.health or r.lastError
WritesHealth == health' # health \/ lastError' # lastError

\* C23: within a tick AddRuleStateHistory is invoked only after all the table
\* transitions of the tick have been applied, and health and lastError are
\* written only by the step that ends the tick (at the abort on failure,
\* after the transition pass on success), never between two transitions.
C23_HistoryAndHealthAfterTransitions ==
    [][ /\ FinishStep =>
              /\ active = committed
              /\ active' = active
              /\ \A i \in itemsToAdd : Applied(i)
        /\ WritesHealth =>
              /\ pc \in {"query", "transition", "history"}
              /\ pc' = "done"
              /\ active' = active ]_vars

\* the transitions of a tick are applied and recorded, the history write is
\* about to be made, and health has not been written yet
C23_Witness ==
    /\ pc = "history"
    /\ itemsToAdd # {}
    /\ \A i \in itemsToAdd : Applied(i)
    /\ active = committed
    /\ health # HealthGood

\* the value a failed template leaves as the label or annotation value
InlineError(tmpl) == <<"<error expanding template: %s>", tmpl.err>>

\* the templates of the set that fail to expand
Failing(templates) == {l \in templates : Expand(l).err # NoError}

\* the end of a tick whose AddRuleStateHistory call returns an error
HistoryFails == EvalFinish(FALSE) /\ itemsToAdd # {}

\* C24: a failure of AddRuleStateHistory or of a label or annotation template
\* does not abort the tick: the transitions of the tick stay applied, Eval
\* returns no error, health is good and lastError nil, and every alert of a
\* rule with a failing template carries the inline error text as the value
\* of that label or annotation.
C24_BestEffortFailuresDoNotAbort ==
    /\ [][ HistoryFails =>
              /\ active' = active
              /\ \A i \in itemsToAdd : Applied(i)
              /\ ret'.err = NoError
              /\ health' = HealthGood
              /\ lastError' = NoError ]_vars
    /\ [](\A fp \in DOMAIN active :
            /\ \A l \in Failing(rule.Labels) : <<l.Name, InlineError(l)>> \in fp
            /\ \A a \in Failing(rule.Annotations) :
                  <<a.Name, InlineError(a)>> \in active[fp].Annotations)
    /\ []((pc = "done" /\ res # <<>>) =>
            /\ ret.err = NoError
            /\ health = HealthGood
            /\ lastError = NoError
            /\ \A i \in 1..Len(res) : Fingerprint(res[i]) \in DOMAIN active)

\* a tick of a rule whose label and annotation templates fail has ended
\* without error: its alert fires and carries the inline error text
C24_Witness ==
    /\ pc = "done"
    /\ ret.err = NoError
    /\ health = HealthGood
    /\ lastError = NoError
    /\ itemsToAdd # {}
    /\ Failing(rule.Labels) # {}
    /\ Failing(rule.Annotations) # {}
    /\ \E fp \in DOMAIN active :
          /\ active[fp].State = StateFiring
          /\ \A l \in Failing(rule.Labels) : <<l.Name, InlineError(l)>> \in fp
          /\ \A a \in Failing(rule.Annotations) :
                <<a.Name, InlineError(a)>> \in active[fp].Annotations

\* the step is a call of prepareQueryRange
PlanStep == planned' # planned

\* the step is a call of populateTemporality, on window ResolvedWindow
ResolveStep == errs' # errs /\ planned' = planned
ResolvedWindow == WindowOrder[Len(errs) + 1]

\* C25: each of the four parameter sets of prepareQueryRange points to a
\* composite query of its own, none of them the rule's; a change of a
\* sub-query's temporality made through one window shows in no other window
\* and not in the rule's stored condition; and a call of prepareQueryRange
\* leaves the rule's stored condition as it was.
C25_WindowsOwnTheirQueries ==
    /\ [](params # NoParams =>
            \A w \in Windows :
                /\ params[w].CompositeQuery # RuleAddr
                /\ \A v \in Windows \ {w} :
                      params[v].CompositeQuery # params[w].CompositeQuery)
    /\ [][ /\ PlanStep => heap'[RuleAddr] = heap[RuleAddr]
           /\ ResolveStep =>
                 /\ heap'[RuleAddr] = heap[RuleAddr]
                 /\ \A v \in Windows \ {ResolvedWindow} :
                       heap'[params[v].CompositeQuery] = heap[params[v].CompositeQuery]
         ]_vars

\* the time rounded down to a whole minute, in Unix milliseconds
RoundedDown(t) == UnixMilli((t \div Minute) * Minute)

\* the current window is the evaluation time less the delay, and less the
\* window for its start, both rounded down to a whole minute
RoundsDown ==
    /\ params["CurrentPeriodQuery"].End = RoundedDown(rangeTs - evalDelay)
    /\ params["CurrentPeriodQuery"].Start = RoundedDown(rangeTs - evalDelay - evalWindow)

\* a second call of prepareQueryRange with the ts of the call before it
\* yields the boundaries that call yielded
SameBoundaries ==
    [][ (PlanStep /\ params # NoParams /\ rangeTs' = rangeTs) =>
            \A w \in Windows : /\ params'[w].Start = params[w].Start
                                /\ params'[w].End = params[w].End ]_vars

\* C26: for every evaluation time now and non-negative evalWindow and
\* evalDelay the current window is end = (now - evalDelay) rounded down to a
\* whole minute and start = (now - evalDelay - evalWindow) rounded down to a
\* whole minute, and two calls with the same now yield the same boundaries
\* for all four windows.
C26_CurrentWindowRoundsDown ==
    /\ [](params # NoParams => RoundsDown)
    /\ SameBoundaries

\* C26 (amended): the same, for an evalDelay of whole milliseconds and an
\* evaluation time at which now - evalDelay - evalWindow is not before the
\* Unix epoch.
C26_RoundsDownSinceEpoch ==
    /\ []((/\ params # NoParams
           /\ evalDelay % Millisecond = 0
           /\ rangeTs - evalDelay - evalWindow >= 0) => RoundsDown)
    /\ SameBoundaries

\* prepareQueryRange was called a second time, at a time off the minute with
\* a delay of whole milliseconds and the start after the epoch, and both
\* boundaries were rounded down
C26_Witness ==
    /\ planned = 2
    /\ evalDelay > 0
    /\ evalDelay % Millisecond = 0
    /\ rangeTs - evalDelay - evalWindow > 0
    /\ rangeTs % Minute # 0
    /\ RoundsDown
    /\ params["CurrentPeriodQuery"].End < UnixMilli(rangeTs - evalDelay)
    /\ params["CurrentPeriodQuery"].Start < UnixMilli(rangeTs - evalDelay - evalWindow)

\* an hour and a day in milliseconds
H == 60 * 60 * 1000
D == 24 * H

\* the window's boundaries are start and end
Spans(w, start, end) == params[w].Start = start /\ params[w].End = end

\* C27: with [start, end] the current window, the prior-period window is
\* [start - 166h - 2h, end - 166h + 2h], the current-week window is
\* [start - 7d, end] and the prior-week window is [start - 14d, start - 7d]:
\* it is 7 days long and ends where the current-week window starts.
C27_BaselineWindows ==
    params # NoParams =>
        LET start == params["CurrentPeriodQuery"].Start
            end == params["CurrentPeriodQuery"].End
        IN  /\ Spans("PastPeriodQuery", start - 166 * H - 2 * H, end - 166 * H + 2 * H)
            /\ Spans("CurrentWeekQuery", start - 7 * D, end)
            /\ Spans("PastWeekQuery", start - 14 * D, start - 7 * D)
            /\ params["PastWeekQuery"].End - params["PastWeekQuery"].Start = 7 * D
            /\ params["PastWeekQuery"].End = params["CurrentWeekQuery"].Start
            /\ params["PastWeekQuery"].End < params["CurrentWeekQuery"].End

\* prepareQueryRange has returned the windows of a current window that is
\* not empty and starts after the epoch
C27_Witness ==
    /\ params # NoParams
    /\ 0 < params["CurrentPeriodQuery"].Start
    /\ params["CurrentPeriodQuery"].Start < params["CurrentPeriodQuery"].End
    /\ Spans("PastWeekQuery", params["CurrentPeriodQuery"].Start - 14 * D,
             params["CurrentPeriodQuery"].Start - 7 * D)
    /\ Spans("PastPeriodQuery", params["CurrentPeriodQuery"].Start - 168 * H,
             params["CurrentPeriodQuery"].End - 164 * H)

\* the step issues a FetchTemporality query
FetchStep == ResolveStep /\ Len(fetched') > Len(fetched)

\* the metrics of the resolved window's metrics queries without explicit
\* temporality that the cache has no temporality for
Uncached ==
    LET bqs == heap[params[ResolvedWindow].CompositeQuery].BuilderQueries
    IN  {bqs[n].Key : n \in {k \in DOMAIN bqs : /\ bqs[k].DataSource = DataSourceMetrics
                                                /\ bqs[k].Temporality = ""
                                                /\ temporalityMap[bqs[k].Key] = NilMap}}

\* C28: between one prepareQueryRange and the next (one tick, four windows)
\* at most one FetchTemporality query is issued; a query asks for exactly the
\* metrics missing from the cache, and none is issued when there is none.
C28_OneMetadataQueryPerTick ==
    /\ [](Len(fetched) <= 1)
    /\ [][ /\ FetchStep => fetched'[Len(fetched')] = Uncached
           /\ (ResolveStep /\ Uncached = {}) => fetched' = fetched ]_vars

\* the call of populateTemporality returns nil
ResolveSucceeds == ResolveStep /\ errs'[Len(errs')] = NoError

\* the temporalities observed for the metric: the cached ones, or else the
\* ones the step fetched
Observed(key) ==
    IF temporalityMap[key] # NilMap THEN temporalityMap[key]
    ELSE IF temporalityMap'[key] # NilMap THEN temporalityMap'[key]
    ELSE {}

\* C29: a successful resolve of a window sets the temporality of every
\* metrics builder sub-query without explicit temporality to delta if the
\* observed set (the cache, or else the fetch) contains delta, else to
\* cumulative if it contains cumulative, else to unspecified; a sub-query
\* with an explicit temporality keeps it; and afterwards every metrics
\* builder sub-query of the window has a non-empty temporality.
C29_ResolvePrefersDelta ==
    [][ ResolveSucceeds =>
          LET a == params[ResolvedWindow].CompositeQuery
          IN  \A n \in DOMAIN heap[a].BuilderQueries :
                LET q == heap[a].BuilderQueries[n]
                    r == heap'[a].BuilderQueries[n]
                IN  /\ (q.DataSource = DataSourceMetrics /\ q.Temporality = "") =>
                          r.Temporality =
                            IF Delta \in Observed(q.Key) THEN Delta
                            ELSE IF Cumulative \in Observed(q.Key) THEN Cumulative
                            ELSE Unspecified
                    /\ q.Temporality # "" => r.Temporality = q.Temporality
                    /\ q.DataSource = DataSourceMetrics => r.Temporality # ""
      ]_vars

\* the four windows of a tick were resolved without error with one fetch,
\* which observed both temporalities for the metric of A, and A is delta in
\* every window
C29_Witness ==
    /\ Len(errs) = Len(WindowOrder)
    /\ \A i \in 1..Len(errs) : errs[i] = NoError
    /\ Len(fetched) = 1
    /\ temporalityMap["signoz_calls_total"] = {Cumulative, Delta}
    /\ \A w \in Windows :
          heap[params[w].CompositeQuery].BuilderQueries["A"].Temporality = Delta

\* the current series of the tick that lack a series with equal labels in
\* one of the three baseline results
Unscorable ==
    {l \in DOMAIN backend.cur.series : ~HasCounterparts(backend, l)}

\* C30: a current series without a counterpart in the prior-period, the
\* current-week or the prior-week result is not found alerting and yields no
\* sample, and the tick does not fail, whichever of the four results is
\* missing for the selected query.
C30_UnscorableSeriesAreSkipped ==
    /\ alerted \cap Unscorable = {}
    /\ pc \in {"transition", "history", "done"} =>
          \A l \in Unscorable : SeriesFingerprint(l) \notin ResultFPs(res)
    /\ pc # "panicked"

------------------------------------------------------------------------------
(* shouldAlert *)

\* shouldAlert has judged the series "a" of this tick
Judged == pc = "transition" /\ scored /\ "a" \in DOMAIN backend.cur.series
\* the points of that series, and whether shouldAlert returned true for it
CurPoints == backend.cur.series["a"]
Verdict == "a" \in alerted
\* the score of a point of that series with value v
ScoreAt(v) ==
    getScore(getMatchingSeries(backend.prev, "a").points,
             getMatchingSeries(backend.week, "a").points,
             getMatchingSeries(backend.weekPrev, "a").points, v)
\* what shouldAlert returns for the series with the points pts
Decide(pts) ==
    shouldAlert(rule.cond.MatchType, rule.cond.CompareOp, rule.cond.Target, pts,
                getMatchingSeries(backend.prev, "a"),
                getMatchingSeries(backend.week, "a"),
                getMatchingSeries(backend.weekPrev, "a"))
\* the score s satisfies the rule's operator against the rule's target
Meets(s) == Satisfies(rule.cond.CompareOp, s, rule.cond.Target)

\* C31: for a non-empty series with all three baselines and an operator among
\* >, <, ==, !=: with at-least-once shouldAlert is true iff some point's score
\* satisfies the operator against the target; with always it is true iff no
\* point's score fails to satisfy it; and appending a point can only turn
\* at-least-once from false to true and always from true to false.
C31_ScansFollowTheOperator ==
    (Judged /\ Len(CurPoints) > 0 /\ rule.cond.CompareOp \in FourOps) =>
        /\ rule.cond.MatchType = AtleastOnce =>
              /\ Verdict <=> \E i \in 1..Len(CurPoints) : Meets(ScoreAt(CurPoints[i]))
              /\ \A v \in ScoreValues : Verdict => Decide(Append(CurPoints, v))
        /\ rule.cond.MatchType = AllTheTimes =>
              /\ Verdict <=> \A i \in 1..Len(CurPoints) : Meets(ScoreAt(CurPoints[i]))
              /\ \A v \in ScoreValues : Decide(Append(CurPoints, v)) => Verdict

\* the points whose value is neither NaN nor infinite
FinitePoints == SelectSeq(CurPoints, LAMBDA v : v \notin {ValueNaN, ValuePosInf, ValueNegInf})
\* the sum and the mean of their scores
TotalScore ==
    SumScores(FinitePoints, getMatchingSeries(backend.prev, "a").points,
              getMatchingSeries(backend.week, "a").points,
              getMatchingSeries(backend.weekPrev, "a").points)
MeanScore == AvgScore(TotalScore, Len(FinitePoints))

\* C32: with on-average (in-total), shouldAlert is true iff the mean (the sum)
\* of the scores of the points whose value is neither NaN nor infinite
\* satisfies the operator against the target; the other points contribute
\* nothing.
C32_AggregatesSkipNonFinitePoints ==
    (Judged /\ Len(FinitePoints) > 0) =>
        /\ rule.cond.MatchType = OnAverage => (Verdict <=> Meets(MeanScore))
        /\ rule.cond.MatchType = InTotal => (Verdict <=> Meets(TotalScore))

\* a series with a NaN and a finite point alerts on its mean, and one with an
\* infinite and a finite point alerts on its sum
C32_Witness ==
    /\ Judged /\ Verdict
    /\ Len(FinitePoints) > 0 /\ Len(FinitePoints) < Len(CurPoints)
    /\ rule.cond.MatchType \in {OnAverage, InTotal}
    /\ rule.cond.CompareOp = ValueIsAbove
    /\ TotalScore.kind = "fin"

\* C33: a series with no usable points never alerts, whatever the match type
\* and the operator: a series without points, and for on-average and in-total
\* a series all of whose points are NaN or infinite.
C33_NoUsablePointsNoAlert ==
    (/\ Judged
     /\ \/ Len(CurPoints) = 0
        \/ rule.cond.MatchType \in {OnAverage, InTotal} /\ Len(FinitePoints) = 0)
    => ~Verdict

\* C39: with an operator that is none of >, <, ==, !=, shouldAlert returns
\* false for every match type and every series.
C39_NoOperatorNoAlert ==
    (Judged /\ rule.cond.CompareOp \notin FourOps) => ~Verdict

------------------------------------------------------------------------------
(* The alert's fields and its state *)

\* Eval has returned
Returned == pc \in {"done", "idle"}

\* C34: after every Eval, successful or failed, every alert of the table is
\* inactive iff its ResolvedAt is set; a firing alert has FiredAt set and not
\* before ActiveAt; a pending alert has FiredAt and ResolvedAt unset; and no
\* alert is disabled.
C34_FieldsAgreeWithState ==
    Returned =>
        \A fp \in DOMAIN active :
            LET a == active[fp]
            IN  /\ (a.State = StateInactive) <=> (a.ResolvedAt # ZeroTime)
                /\ a.State = StateFiring =>
                      (a.FiredAt # ZeroTime /\ a.FiredAt >= a.ActiveAt)
                /\ a.State = StatePending =>
                      (a.FiredAt = ZeroTime /\ a.ResolvedAt = ZeroTime)
                /\ a.State # StateDisabled

\* a failed Eval has returned while the table holds a pending alert and an
\* alert that fired after a hold and was resolved
C34_Witness ==
    /\ pc = "done"
    /\ ret.err # NoError
    /\ \E fp \in DOMAIN active : active[fp].State = StatePending
    /\ \E fp \in DOMAIN active :
          /\ active[fp].State = StateInactive
          /\ active[fp].FiredAt > active[fp].ActiveAt

\* the alert that the first loop inserts for a fingerprint at ts
Fresh(a) ==
    /\ a.State = StatePending
    /\ a.ActiveAt = ts
    /\ a.FiredAt = ZeroTime
    /\ a.ResolvedAt = ZeroTime
    /\ a.LastSentAt = ZeroTime

\* C35: the alert of a fingerprint never goes from firing to pending nor from
\* inactive to firing; an inactive alert that matches again is replaced by a
\* fresh alert (ActiveAt the time of the match; FiredAt, ResolvedAt and
\* LastSentAt unset), and an alert fires only from pending, once the hold
\* duration has elapsed since its ActiveAt.
C35_InactiveAlertsStartAfresh ==
    [][ /\ \A fp \in DOMAIN active \cap DOMAIN active' :
              /\ ~(active[fp].State = StateFiring /\ active'[fp].State = StatePending)
              /\ ~(active[fp].State = StateInactive /\ active'[fp].State = StateFiring)
              /\ (active[fp].State # StateFiring /\ active'[fp].State = StateFiring) =>
                    /\ active[fp].State = StatePending
                    /\ ts - active[fp].ActiveAt >= holdDuration
                    /\ active'[fp].ActiveAt = active[fp].ActiveAt
        /\ MergeStep =>
              \A fp \in ResultFPs(res) \cap DOMAIN active :
                  active[fp].State = StateInactive => Fresh(active'[fp])
      ]_vars

\* the first loop has replaced an inactive alert that had fired and been sent
\* by a fresh one with a later ActiveAt
C35_Witness ==
    /\ pc = "advance"
    /\ \E fp \in DOMAIN active \cap DOMAIN committed :
          /\ committed[fp].State = StateInactive
          /\ committed[fp].FiredAt # ZeroTime
          /\ committed[fp].LastSentAt # ZeroTime
          /\ Fresh(active[fp])
          /\ active[fp].ActiveAt > committed[fp].ActiveAt

------------------------------------------------------------------------------
(* Health and lastError *)

\* C36: after Eval has returned, health is good and lastError nil on success,
\* health is bad and lastError the returned error on failure, so health is
\* good iff lastError is nil; and while an Eval is failing, a reader that can
\* take r.mtx never finds health bad with a lastError that is nil or left from
\* an earlier tick.
C36_HealthAgreesWithLastError ==
    /\ pc = "done" =>
          IF ret.err = NoError
          THEN health = HealthGood /\ lastError = NoError
          ELSE health = HealthBad /\ lastError = ret.err
    /\ (Returned /\ health # HealthUnknown) =>
          ((health = HealthGood) <=> (lastError = NoError))
    /\ (pc = "failed" /\ mtx = "free" /\ health = HealthBad) =>
          lastError = BackendError(backend)

------------------------------------------------------------------------------
(* Data and the absence branch *)

\* C37: in a tick whose current-period result has at least one series, the
\* result holds no missing-data sample, whatever AbsentFor is (0 included,
\* with AlertOnAbsent set), and the last-seen timestamp is the time of the
\* tick.
C37_DataMeansNoAbsence ==
    (pc \in {"transition", "history", "done"} /\ backend.fail = "none"
       /\ HasDatapoints(backend.cur)) =>
        /\ \A i \in 1..Len(res) : ~res[i].IsMissing
        /\ lastTimestampWithDatapoints = now

------------------------------------------------------------------------------
(* Notification of fired and resolved alerts *)

\* the scheduler's call of SendAlerts after a successful Eval
DispatchStep == pc = "done" /\ ret.err = NoError /\ dispatchedAt' # dispatchedAt
\* the alerts the second loop deletes in this step, as they were
Purged == removed'

\* C38: with SendAlerts called after every successful Eval with Eval's ts, the
\* first dispatch after the tick that made an alert fire passes it to notify,
\* the dispatch after the tick that resolved a firing alert passes it in state
\* inactive, and an alert that had fired has been passed to notify after it
\* was resolved when it is purged from the table.
C38_FiredAndResolvedAreNotified ==
    [][ /\ DispatchStep =>
              \A fp \in DOMAIN active :
                  /\ (active[fp].State = StateFiring /\ active[fp].FiredAt = ts) =>
                        (fp \in Sent /\ snap'.alerts[fp].State = StateFiring)
                  /\ (active[fp].State = StateInactive /\ active[fp].ResolvedAt = ts
                        /\ active[fp].FiredAt # ZeroTime) =>
                        (fp \in Sent /\ snap'.alerts[fp].State = StateInactive)
        /\ TransitionStep =>
              \A fp \in DOMAIN Purged :
                  Purged[fp].FiredAt # ZeroTime =>
                      /\ Purged[fp].State = StateInactive
                      /\ Purged[fp].LastSentAt >= Purged[fp].ResolvedAt
      ]_vars

\* an alert that fired, was notified, was resolved and notified again has
\* been purged
C38_Witness ==
    /\ pc = "history"
    /\ \E fp \in DOMAIN removed :
          /\ removed[fp].FiredAt # ZeroTime
          /\ removed[fp].FiredAt < removed[fp].ResolvedAt
          /\ removed[fp].LastSentAt = removed[fp].ResolvedAt

------------------------------------------------------------------------------
(* The rule store *)

\* the caller's Commit and Rollback of the transaction it was handed
CommitStep == tx.state = "open" /\ dbRet'.op = "Commit"
RollbackStep == tx.state = "open" /\ dbRet'.op = "Rollback"

\* C40: the INSERT, UPDATE and DELETE of CreateRuleTx, EditRuleTx and
\* DeleteRuleTx run inside the transaction they return: the rows other readers
\* see change only when the caller commits, and after a rollback they are what
\* they were when the transaction began.
C40_WritesStayInTheTransaction ==
    [][ /\ rulesTable' # rulesTable => CommitStep
        /\ RollbackStep => rulesTable' = tx.base
      ]_vars


====
